---- MODULE Spec2Model ----
(***************************************************************************)
(* Rule engine of mailcow-ai-filter: FilterCondition / FilterAction /      *)
(* FilterRule / SieveFilter, the FilterGenerator and the FilterMatcher.    *)
(*                                                                         *)
(* Python values are modelled as follows.                                  *)
(*   - str is a TLA+ string; TLC evaluates Len, SubSeq and \o on strings.  *)
(*   - a value whose Python type the code does not control (a field of a   *)
(*     CategoryPattern, an entry of the raw AI response) is a tagged       *)
(*     pair <<type, value>>, so that the run-time type errors              *)
(*     of the code (TypeError, AttributeError) are outcomes of the model.  *)
(*   - a call either returns or raises: its outcome is Ok(value) or        *)
(*     Raise(exception type, message).                                     *)
(*   - confidences are tenths (0.5 is 5).                                  *)
(***************************************************************************)
EXTENDS Integers, Sequences, FiniteSets, TLC

VARIABLES
    mode,           \* which service the run exercises
    pc,             \* "start" before the call, "done" after it
    cond_in,        \* FilterCondition construction: path and arguments
    cond_out,       \* FilterCondition construction: outcome
    categories,     \* FilterGenerator input: list[CategoryPattern]
    ai_response,    \* FilterGenerator input: raw AI response dict
    gen_out,        \* FilterGenerator outcome: SieveFilter or exception
    rule_out,       \* FilterGenerator._create_rule_from_category outcome
    rule_src,       \* history: per generated rule, the input position of its category
    sieve_filter,   \* FilterMatcher input: the filter under test
    emails,         \* FilterMatcher input: the email collection
    test_out,       \* FilterMatcher.test_filter outcome
    validation,     \* FilterValidator.validate_filter / SieveFilter.validate outcome
    unmatched_out,  \* FilterMatcher.find_unmatched_emails outcome
    simulated,      \* FilterMatcher.simulate_actions: the match result and the outcome
    detector,       \* PatternDetector: its thresholds
    detected,       \* PatternDetector.detect_patterns outcome
    objects,        \* SieveFilter objects and the list objects their rules refer to
    last_call,      \* the last SieveFilter operation: receiver, state before, outcome
    suggested,      \* PatternDetector.suggest_folder_for_pattern: input and outcome
    grouped,        \* PatternDetector.group_emails_by_pattern: pattern and outcome
    use_case,       \* AnalyzeEmailsUseCase.execute: position, collaborators, calls made
    ollama          \* OllamaAdapter._call_ollama: attempt, requests, waits, outcome

vars == <<mode, pc, cond_in, cond_out, categories, ai_response, gen_out, rule_out,
          rule_src, sieve_filter, emails, test_out, validation, unmatched_out,
          simulated, detector, detected, objects, last_call, suggested, grouped,
          use_case, ollama>>

(***************************************************************************)
(* Outcomes of a call.                                                     *)
(***************************************************************************)
Ok(v) == [exc |-> "none", val |-> v]
Raise(e, m) == [exc |-> e, msg |-> m]
IsOk(o) == o.exc = "none"
NotRun == [exc |-> "notrun"]

\* statement sequencing: the statements after a call run on the value it
\* returned; an exception it raised propagates
Bind(out, Rest(_)) == IF IsOk(out) THEN Rest(out.val) ELSE out

(***************************************************************************)
(* Python str methods.                                                     *)
(***************************************************************************)
UpperAlpha == "ABCDEFGHIJKLMNOPQRSTUVWXYZ"
LowerAlpha == "abcdefghijklmnopqrstuvwxyz"

CharAt(s, i) == SubSeq(s, i, i)

UpperIndex(c) == {i \in 1..Len(UpperAlpha) : CharAt(UpperAlpha, i) = c}

\* str.lower() on one character
LowerChar(c) ==
    IF c \in {"A", "B", "C", "D", "E", "F", "G", "H", "I", "J", "K", "L", "M", "N",
               "O", "P", "Q", "R", "S", "T", "U", "V", "W", "X", "Y", "Z"}
    THEN CharAt(LowerAlpha, CHOOSE i \in UpperIndex(c) : TRUE)
    ELSE c

RECURSIVE Lower(_)
\* str.lower()
Lower(s) == IF s = "" THEN "" ELSE LowerChar(CharAt(s, 1)) \o Lower(Tail(s))

IsSpace(c) == c = " "

RECURSIVE LStrip(_)
LStrip(s) == IF s # "" /\ IsSpace(CharAt(s, 1)) THEN LStrip(Tail(s)) ELSE s

RECURSIVE RStrip(_)
RStrip(s) ==
    IF s # "" /\ IsSpace(CharAt(s, Len(s))) THEN RStrip(SubSeq(s, 1, Len(s) - 1)) ELSE s

\* str.strip()
Strip(s) == RStrip(LStrip(s))

\* str.startswith(p)
StartsWith(s, p) == Len(s) >= Len(p) /\ SubSeq(s, 1, Len(p)) = p

\* s[n:]
SliceFrom(s, n) == SubSeq(s, n + 1, Len(s))

\* sub in s
Contains(s, sub) ==
    \E i \in 1..(Len(s) - Len(sub) + 1) : SubSeq(s, i, i + Len(sub) - 1) = sub

RECURSIVE SplitAcc(_, _, _)
SplitAcc(s, sep, cur) ==
    IF s = "" THEN <<cur>>
    ELSE IF CharAt(s, 1) = sep THEN <<cur>> \o SplitAcc(Tail(s), sep, "")
    ELSE SplitAcc(Tail(s), sep, cur \o CharAt(s, 1))

\* str.split(sep) for a one-character separator
Split(s, sep) == SplitAcc(s, sep, "")

(***************************************************************************)
(* FilterCondition (value_objects/filter_condition.py)                     *)
(***************************************************************************)
INVALID_DOMAINS ==
    {"example.com", "example.org", "example.net", "test.com", "test.org",
     "test.net", "unsorted.com", "random.com", "misc.com", "placeholder.com",
     "dummy.com", "localhost", "127.0.0.1"}

GENERIC_DOMAINS ==
    {"email.com", "mail.com", "app.com", "security.com", "bank.com", "bank.de",
     "shop.com", "store.com"}

ConditionType ==
    {"header_contains", "header_is", "address_domain", "address_is",
     "body_contains", "size_over", "size_under"}

MatchType == {":is", ":contains", ":matches", ":regex"}

\* the dataclass constructor: __init__ followed by __post_init__
FilterCondition(condition_type, field, match_type, value) ==
    IF field = "" THEN Raise("ValueError", "Field cannot be empty")
    ELSE IF value = "" THEN Raise("ValueError", "Value cannot be empty")
    ELSE Ok([condition_type |-> condition_type, field |-> field,
             match_type |-> match_type, value |-> value])

header_contains(field, value) ==
    FilterCondition("header_contains", field, ":contains", value)

\* the comparison with the two sets made on the domain as given, not lower-cased
is_valid_domain_CaseSensitive(domain) ==
    LET domain_lower == Strip(domain)
    IN  IF domain_lower \in INVALID_DOMAINS THEN FALSE
        ELSE IF domain_lower \in GENERIC_DOMAINS THEN FALSE
        ELSE IF ~Contains(domain_lower, ".") THEN FALSE
        ELSE IF domain_lower = "" THEN FALSE
        ELSE TRUE

is_valid_domain(domain) ==
    LET domain_lower == Strip(Lower(domain))
    IN  IF domain_lower \in INVALID_DOMAINS THEN FALSE
        ELSE IF domain_lower \in GENERIC_DOMAINS THEN FALSE
        ELSE IF ~Contains(domain_lower, ".") THEN FALSE
        ELSE IF domain_lower = "" THEN FALSE
        ELSE TRUE

address_domain_is(field, domain) ==
    IF ~is_valid_domain(domain)
    THEN Raise("ValueError", "Invalid or placeholder domain")
    ELSE FilterCondition("address_domain", field, ":is", domain)

from_pattern(pattern0) ==
    LET pattern == Strip(pattern0)
    IN  IF StartsWith(pattern, "from:")
        THEN LET value == Strip(SliceFrom(pattern, 5))
             IN  IF StartsWith(value, "@")
                 THEN address_domain_is("from", SliceFrom(value, 1))
                 ELSE header_contains("from", value)
        ELSE IF StartsWith(pattern, "subject:")
        THEN header_contains("subject", Strip(SliceFrom(pattern, 8)))
        ELSE header_contains("subject", pattern)

\* [f(x) for x in xs] where f may raise: the first exception propagates
RECURSIVE CollectOk(_)
CollectOk(outs) ==
    IF outs = <<>> THEN Ok(<<>>)
    ELSE IF ~IsOk(Head(outs)) THEN Head(outs)
    ELSE LET rest == CollectOk(Tail(outs))
         IN  IF IsOk(rest) THEN Ok(<<Head(outs).val>> \o rest.val) ELSE rest

\* the pattern taken as one keyword, as from_pattern takes it
from_pattern_multi_NoSplit(pattern0) == CollectOk(<<from_pattern(pattern0)>>)

from_pattern_multi(pattern0) ==
    LET pattern == Strip(pattern0)
    IN  IF StartsWith(pattern, "from:")
        THEN CollectOk(<<from_pattern(pattern)>>)
        ELSE IF StartsWith(pattern, "subject:")
        THEN LET value == Strip(SliceFrom(pattern, 8))
             IN  IF Contains(value, ",")
                 THEN LET parts == Split(value, ",")
                          keywords == SelectSeq([i \in 1..Len(parts) |-> Strip(parts[i])],
                                                LAMBDA kw : kw # "")
                      IN  CollectOk([i \in 1..Len(keywords) |->
                                        header_contains("subject", keywords[i])])
                 ELSE CollectOk(<<header_contains("subject", value)>>)
        ELSE CollectOk(<<header_contains("subject", pattern)>>)

(***************************************************************************)
(* Dynamically typed Python values.                                        *)
(***************************************************************************)
Str(s) == <<"str", s>>
Num(n) == <<"num", n>>
List(l) == <<"list", l>>
Dict(d) == <<"dict", d>>
NoneV == <<"none">>
TypeOf(x) == x[1]
ValOf(x) == x[2]

\* bool(x) is False
Falsy(x) ==
    \/ TypeOf(x) = "none"
    \/ TypeOf(x) = "str" /\ ValOf(x) = ""
    \/ TypeOf(x) = "num" /\ ValOf(x) = 0
    \/ TypeOf(x) = "list" /\ ValOf(x) = <<>>
    \/ TypeOf(x) = "dict" /\ DOMAIN ValOf(x) = {}

(***************************************************************************)
(* FilterAction (value_objects/filter_action.py)                           *)
(***************************************************************************)
ActionType == {"fileinto", "redirect", "discard", "keep", "stop", "setflag", "addflag"}

\* the dataclass constructor: __init__ followed by __post_init__
FilterAction(action_type, parameter) ==
    IF action_type \in {"fileinto", "redirect"} /\ Falsy(parameter)
    THEN Raise("ValueError", action_type \o " requires a parameter")
    ELSE Ok([action_type |-> action_type, parameter |-> parameter])

fileinto(folder) == FilterAction("fileinto", folder)
stop == FilterAction("stop", NoneV)
mark_as_read == FilterAction("setflag", Str("\\Seen"))
keep == FilterAction("keep", NoneV)

(***************************************************************************)
(* FilterRule (value_objects/filter_rule.py)                               *)
(***************************************************************************)
\* the constructor without __post_init__
FilterRule_Unchecked(conditions, actions, logical_operator, name, description) ==
    Ok([conditions |-> conditions, actions |-> actions,
        logical_operator |-> logical_operator, name |-> name,
        description |-> description])

\* the dataclass constructor: __init__ followed by __post_init__
FilterRule(conditions, actions, logical_operator, name, description) ==
    IF conditions = <<>>
    THEN Raise("ValueError", "Filter rule must have at least one condition")
    ELSE IF actions = <<>>
    THEN Raise("ValueError", "Filter rule must have at least one action")
    ELSE IF logical_operator \notin {"anyof", "allof"}
    THEN Raise("ValueError", "Invalid logical operator")
    ELSE Ok([conditions |-> conditions, actions |-> actions,
             logical_operator |-> logical_operator, name |-> name,
             description |-> description])

FilterRule_create(conditions, actions, logical_operator, name, description) ==
    FilterRule(conditions, actions, logical_operator, name, description)

(***************************************************************************)
(* SieveFilter (entities/sieve_filter.py)                                  *)
(***************************************************************************)
SieveFilter_create(name, description, rules, enabled, priority) ==
    IF name = "" THEN Raise("ValueError", "Filter name cannot be empty")
    ELSE Ok([name |-> name, description |-> description, rules |-> rules,
             enabled |-> enabled, priority |-> priority])

(***************************************************************************)
(* FilterGenerator (services/filter_generator.py)                          *)
(*                                                                         *)
(* A CategoryPattern is a record [name, description, patterns,             *)
(* suggested_folder, confidence, subcategories] of dynamically typed       *)
(* values; subcategories is NoneV or List of CategoryPattern records.      *)
(* example_subjects is read by no code of the generator and is left out.   *)
(* A list element is carried together with its position in the input       *)
(* ([at |-> <<i>> or <<i, j>>, cat |-> CategoryPattern]): the position     *)
(* stands for the identity of the Python object.                           *)
(***************************************************************************)
min_confidence == 5

Enumerate(prefix, cats) ==
    [i \in 1..Len(cats) |-> [at |-> Append(prefix, i), cat |-> cats[i]]]

security_keywords == <<"security", "alert", "warning", "critical", "urgent", "notification">>
finance_keywords ==
    <<"finance", "bank", "payment", "invoice", "receipt", "bill", "paypal", "stripe">>
work_keywords ==
    <<"work", "github", "gitlab", "ci/cd", "ci-cd", "code", "deploy", "meeting", "slack">>
shopping_keywords == <<"shop", "order", "shipping", "delivery", "amazon", "ebay", "purchase">>
social_keywords == <<"social", "facebook", "twitter", "linkedin", "instagram", "message">>
promo_keywords == <<"newsletter", "promotion", "marketing", "ad", "offer", "subscribe">>

\* any(kw in combined for kw in keywords)
AnyKeyword(combined, keywords) ==
    \E i \in 1..Len(keywords) : Contains(combined, keywords[i])

\* x.lower() of a value that need not be a str
LowerOf(x) ==
    IF TypeOf(x) = "str" THEN Ok(Lower(ValOf(x)))
    ELSE Raise("AttributeError", "object has no attribute 'lower'")

get_category_priority(category) ==
    LET name_lower == LowerOf(category.name)
        desc_lower == LowerOf(category.description)
    IN  IF ~IsOk(name_lower) THEN name_lower
        ELSE IF ~IsOk(desc_lower) THEN desc_lower
        ELSE LET combined == name_lower.val \o " " \o desc_lower.val
             IN  IF AnyKeyword(combined, security_keywords) THEN Ok(0)
                 ELSE IF AnyKeyword(combined, finance_keywords) THEN Ok(10)
                 ELSE IF AnyKeyword(combined, work_keywords) THEN Ok(20)
                 ELSE IF AnyKeyword(combined, shopping_keywords) THEN Ok(30)
                 ELSE IF AnyKeyword(combined, social_keywords) THEN Ok(40)
                 ELSE IF AnyKeyword(combined, promo_keywords) THEN Ok(50)
                 ELSE Ok(60)

\* the confidence test with the threshold left out
MeetsConfidence_NoThreshold(cat) == Ok(TRUE)

\* cat.confidence >= self.min_confidence
MeetsConfidence(cat) ==
    IF TypeOf(cat.confidence) = "num" THEN Ok(ValOf(cat.confidence) >= min_confidence)
    ELSE Raise("TypeError", "'>=' not supported between these instances")

\* [cat for cat in items if cat.confidence >= self.min_confidence]
RECURSIVE ConfidenceFilter(_)
ConfidenceFilter(items) ==
    IF items = <<>> THEN Ok(<<>>)
    ELSE LET keep_it == MeetsConfidence(Head(items).cat)
         IN  IF ~IsOk(keep_it) THEN keep_it
             ELSE LET rest == ConfidenceFilter(Tail(items))
                  IN  IF ~IsOk(rest) THEN rest
                      ELSE IF keep_it.val THEN Ok(<<Head(items)>> \o rest.val)
                      ELSE rest

\* a stable sort: x goes after every element whose key is <= its own
RECURSIVE InsertByKey(_, _)
InsertByKey(sorted, x) ==
    IF sorted = <<>> THEN <<x>>
    ELSE IF Head(sorted).key <= x.key THEN <<Head(sorted)>> \o InsertByKey(Tail(sorted), x)
    ELSE <<x>> \o sorted

RECURSIVE StableSort(_)
StableSort(keyed) ==
    IF keyed = <<>> THEN <<>>
    ELSE InsertByKey(StableSort(SubSeq(keyed, 1, Len(keyed) - 1)), keyed[Len(keyed)])

\* the categories taken in input order, the sort left out
SortedByPriority_Unsorted(items) == Ok(items)

\* sorted(items, key=self._get_category_priority): the keys are computed first,
\* in list order, and the first failing key computation propagates
SortedByPriority(items) ==
    LET keys == CollectOk([i \in 1..Len(items) |-> get_category_priority(items[i].cat)])
    IN  IF ~IsOk(keys) THEN keys
        ELSE LET keyed == [i \in 1..Len(items) |-> [key |-> keys.val[i], item |-> items[i]]]
                 ordered == StableSort(keyed)
             IN  Ok([i \in 1..Len(ordered) |-> ordered[i].item])

\* the elements a for loop over category.patterns visits
IterPatterns(patterns) ==
    IF TypeOf(patterns) = "list" THEN Ok(ValOf(patterns))
    ELSE IF TypeOf(patterns) = "str"
    THEN Ok([i \in 1..Len(ValOf(patterns)) |-> Str(CharAt(ValOf(patterns), i))])
    ELSE Raise("TypeError", "object is not iterable")

\* the loop body of lines 229-236: ValueError is caught, anything else propagates
RECURSIVE CollectConditions(_)
CollectConditions(patterns) ==
    IF patterns = <<>> THEN Ok(<<>>)
    ELSE LET pattern == Head(patterns)
         IN  IF TypeOf(pattern) # "str"
             THEN Raise("AttributeError", "object has no attribute 'strip'")
             ELSE LET pattern_conditions == from_pattern_multi(ValOf(pattern))
                      rest == CollectConditions(Tail(patterns))
                  IN  IF ~IsOk(rest) THEN rest
                      ELSE IF IsOk(pattern_conditions)
                      THEN Ok(pattern_conditions.val \o rest.val)
                      ELSE rest

\* the action list with the stop left out
RuleActions_NoStop(category) == CollectOk(<<fileinto(category.suggested_folder)>>)

\* lines 242-245: actions = [fileinto(suggested_folder), stop()]
RuleActions(category) == CollectOk(<<fileinto(category.suggested_folder), stop>>)

NoRule == <<"none">>
SomeRule(r) == <<"rule", r>>

create_rule_from_category(category) ==
    IF Falsy(category.patterns) THEN Ok(NoRule)
    ELSE Bind(IterPatterns(category.patterns), LAMBDA patterns :
         Bind(CollectConditions(patterns), LAMBDA conditions :
             IF conditions = <<>> THEN Ok(NoRule)
             ELSE Bind(RuleActions(category), LAMBDA actions :
                  Bind(FilterRule_create(
                           conditions, actions,
                           IF Len(conditions) > 1 THEN "anyof" ELSE "anyof",
                           ValOf(category.name), ValOf(category.description)),
                       LAMBDA rule : Ok(SomeRule(rule))))))

\* rules.append(rule) when a rule came back; acc is [rules, src]
AppendRule(acc, made, at) ==
    IF TypeOf(made) = "rule"
    THEN [rules |-> Append(acc.rules, ValOf(made)), src |-> Append(acc.src, at)]
    ELSE acc

\* lines 95-98: for subcat in sorted_subcats
RECURSIVE SubcategoryLoop(_, _)
SubcategoryLoop(sorted_subcats, acc) ==
    IF sorted_subcats = <<>> THEN Ok(acc)
    ELSE Bind(create_rule_from_category(Head(sorted_subcats).cat), LAMBDA sub_rule :
             SubcategoryLoop(Tail(sorted_subcats),
                             AppendRule(acc, sub_rule, Head(sorted_subcats).at)))

\* lines 86-98: the subcategories of one category
ProcessSubcategories(item, acc) ==
    IF Falsy(item.cat.subcategories) THEN Ok(acc)
    ELSE Bind(ConfidenceFilter(Enumerate(item.at, ValOf(item.cat.subcategories))),
              LAMBDA confident :
         Bind(SortedByPriority(confident), LAMBDA sorted_subcats :
             SubcategoryLoop(sorted_subcats, acc)))

\* the subcategory block nested under `if rule:`
RECURSIVE CategoryLoop_SubsUnderRule(_, _)
CategoryLoop_SubsUnderRule(sorted_categories, acc) ==
    IF sorted_categories = <<>> THEN Ok(acc)
    ELSE Bind(create_rule_from_category(Head(sorted_categories).cat), LAMBDA rule :
         Bind(IF TypeOf(rule) = "rule"
              THEN ProcessSubcategories(
                       Head(sorted_categories),
                       AppendRule(acc, rule, Head(sorted_categories).at))
              ELSE Ok(acc),
              LAMBDA with_subs :
                  CategoryLoop_SubsUnderRule(Tail(sorted_categories), with_subs)))

\* lines 79-98: for category in sorted_categories
RECURSIVE CategoryLoop(_, _)
CategoryLoop(sorted_categories, acc) ==
    IF sorted_categories = <<>> THEN Ok(acc)
    ELSE Bind(create_rule_from_category(Head(sorted_categories).cat), LAMBDA rule :
         Bind(ProcessSubcategories(
                  Head(sorted_categories),
                  AppendRule(acc, rule, Head(sorted_categories).at)),
              LAMBDA with_subs : CategoryLoop(Tail(sorted_categories), with_subs)))

\* SieveFilter.create without the `if not rules` test before it
FinishFilter_NoEmptyCheck(acc) ==
    Bind(SieveFilter_create(
             "AI-Generated Email Filters",
             "Automatically generated filters for "
                 \o ToString(Len(acc.rules)) \o " categories",
             acc.rules, TRUE, 0),
         LAMBDA made : Ok([filter |-> made, src |-> acc.src]))

\* lines 100-107: `if not rules: raise` and SieveFilter.create
FinishFilter(acc) ==
    IF acc.rules = <<>>
    THEN Raise("ValueError", "Failed to generate any valid rules from categories")
    ELSE Bind(SieveFilter_create(
                  "AI-Generated Email Filters",
                  "Automatically generated filters for "
                      \o ToString(Len(acc.rules)) \o " categories",
                  acc.rules, TRUE, 0),
              LAMBDA made : Ok([filter |-> made, src |-> acc.src]))

\* the categories below the threshold are processed like the others
generate_filter_from_categories_Unfiltered(cats) ==
    IF cats = <<>>
    THEN Raise("ValueError", "No categories provided for filter generation")
    ELSE Bind(SortedByPriority(Enumerate(<<>>, cats)), LAMBDA sorted_categories :
         Bind(CategoryLoop(sorted_categories, [rules |-> <<>>, src |-> <<>>]),
              FinishFilter))

\* returns Ok([filter |-> SieveFilter, src |-> positions of the rules' categories])
generate_filter_from_categories(cats) ==
    IF cats = <<>>
    THEN Raise("ValueError", "No categories provided for filter generation")
    ELSE Bind(ConfidenceFilter(Enumerate(<<>>, cats)), LAMBDA valid_categories :
             IF valid_categories = <<>>
             THEN Raise("ValueError", "No categories meet minimum confidence threshold")
             ELSE Bind(SortedByPriority(valid_categories), LAMBDA sorted_categories :
                  Bind(CategoryLoop(sorted_categories, [rules |-> <<>>, src |-> <<>>]),
                       FinishFilter)))

\* cat_dict.get(key, default)
Get(d, key, default) == IF key \in DOMAIN d THEN d[key] ELSE default

\* what the first statements of _parse_category raise on an entry that is no dict:
\* `"subcategories" in x` is a TypeError on a number or None; on a str or a list
\* it is a membership test, and x["subcategories"] or x.get follows
NonDictFailure(x) ==
    IF TypeOf(x) \in {"num", "none"}
    THEN Raise("TypeError", "argument is not iterable")
    ELSE IF TypeOf(x) = "str" /\ Contains(ValOf(x), "subcategories")
    THEN Raise("TypeError", "string indices must be integers")
    ELSE Raise("AttributeError", "object has no attribute 'get'")

\* the elements a for loop over cat_dict["subcategories"] visits
IterSubcategories(x) ==
    IF TypeOf(x) = "list" THEN Ok(ValOf(x))
    ELSE IF TypeOf(x) = "str" THEN Ok([i \in 1..Len(ValOf(x)) |-> Str(CharAt(ValOf(x), i))])
    ELSE Raise("TypeError", "object is not iterable")

RECURSIVE parse_category(_)
parse_category(cat_dict) ==
    IF TypeOf(cat_dict) # "dict" THEN NonDictFailure(cat_dict)
    ELSE LET d == ValOf(cat_dict)
             subcategories ==
                 IF "subcategories" \in DOMAIN d /\ ~Falsy(d["subcategories"])
                 THEN LET subcat_dicts == IterSubcategories(d["subcategories"])
                      IN  IF ~IsOk(subcat_dicts) THEN subcat_dicts
                          ELSE CollectOk([i \in 1..Len(subcat_dicts.val) |->
                                            parse_category(subcat_dicts.val[i])])
                 ELSE Ok(<<>>)
         IN  IF ~IsOk(subcategories) THEN subcategories
             ELSE Ok([name |-> Get(d, "name", Str("Unknown")),
                      description |-> Get(d, "description", Str("")),
                      patterns |-> Get(d, "patterns", List(<<>>)),
                      suggested_folder |->
                          Get(d, "suggested_folder", Get(d, "name", Str("Unknown"))),
                      confidence |-> Get(d, "confidence", Num(5)),
                      subcategories |->
                          IF subcategories.val = <<>> THEN NoneV
                          ELSE List(subcategories.val)])

\* lines 276-284: KeyError and TypeError skip the entry, anything else propagates
RECURSIVE ParseCategories(_)
ParseCategories(cat_dicts) ==
    IF cat_dicts = <<>> THEN Ok(<<>>)
    ELSE LET category == parse_category(Head(cat_dicts))
         IN  IF ~IsOk(category) /\ category.exc \notin {"KeyError", "TypeError"}
             THEN category
             ELSE LET rest == ParseCategories(Tail(cat_dicts))
                  IN  IF ~IsOk(rest) THEN rest
                      ELSE IF IsOk(category) THEN Ok(<<category.val>> \o rest.val)
                      ELSE rest

generate_filter_from_raw_response(response) ==
    IF "categories" \notin DOMAIN response
    THEN Raise("ValueError", "AI response missing 'categories' field")
    ELSE Bind(ParseCategories(response["categories"]), generate_filter_from_categories)

(***************************************************************************)
(* SieveFilter.add_rule (entities/sieve_filter.py)                         *)
(***************************************************************************)
add_rule(filter, rule) == [filter EXCEPT !.rules = Append(@, rule)]

(***************************************************************************)
(* FilterMatcher (services/filter_matcher.py)                              *)
(*                                                                         *)
(* An Email is a record [id, sender, subject, body, folder]; sender is the *)
(* EmailAddress value.  An object is a record of its attributes: reading   *)
(* an attribute the object does not have raises AttributeError.            *)
(***************************************************************************)
HasAttr(obj, attr) == attr \in DOMAIN obj

NoAttribute(attr) == Raise("AttributeError", "object has no attribute '" \o attr \o "'")

\* member == "text" where member is a member of a plain Enum (ActionType): a
\* member of an Enum that does not derive from str equals no str
EnumEqualsStr(member, text) == FALSE

\* Ok(Str(value)) or Ok(NoneV)
get_email_field_value(email, field) ==
    LET field_lower == Lower(field)
    IN  IF field_lower = "from" THEN Str(email.sender)
        ELSE IF field_lower = "subject" THEN Str(email.subject)
        ELSE IF field_lower = "to" THEN Str("")
        ELSE IF field_lower = "body" THEN Str(email.body)
        ELSE NoneV

RECURSIVE WildcardMatch(_, _)
\* re.match of the translated pattern on text, both lower-cased: "*" (".*") is
\* any run of characters, "?" and "." are any one character, any other character
\* of the value is itself; the match is anchored at the start only
WildcardMatch(pattern, text) ==
    IF pattern = "" THEN TRUE
    ELSE IF CharAt(pattern, 1) = "*"
    THEN \E k \in 0..Len(text) : WildcardMatch(Tail(pattern), SliceFrom(text, k))
    ELSE IF text = "" THEN FALSE
    ELSE IF CharAt(pattern, 1) \in {"?", "."} \/ CharAt(pattern, 1) = CharAt(text, 1)
    THEN WildcardMatch(Tail(pattern), Tail(text))
    ELSE FALSE

test_condition(condition, email) ==
    LET field_value == get_email_field_value(email, condition.field)
    IN  IF TypeOf(field_value) = "none" THEN FALSE
        ELSE IF condition.match_type = ":is"
        THEN Lower(ValOf(field_value)) = Lower(condition.value)
        ELSE IF condition.match_type = ":contains"
        THEN Contains(Lower(ValOf(field_value)), Lower(condition.value))
        ELSE IF condition.match_type = ":matches"
        THEN WildcardMatch(Lower(condition.value), Lower(ValOf(field_value)))
        ELSE FALSE

test_rule_against_email(rule, email) ==
    IF rule.conditions = <<>> THEN Ok(FALSE)
    ELSE IF ~HasAttr(rule, "match_all") THEN NoAttribute("match_all")
    ELSE IF rule["match_all"]
    THEN Ok(\A i \in 1..Len(rule.conditions) : test_condition(rule.conditions[i], email))
    ELSE Ok(\E i \in 1..Len(rule.conditions) : test_condition(rule.conditions[i], email))

\* line 86: any(action.action_type == "stop" for action in rule.actions)
HasStopAction(rule) ==
    \E i \in 1..Len(rule.actions) : EnumEqualsStr(rule.actions[i].action_type, "stop")

\* lines 69-87: for rule in sieve_filter.rules; acc is [matches_by_rule, match_results]
RECURSIVE RuleLoop(_, _, _)
RuleLoop(rules, email, acc) ==
    IF rules = <<>> THEN Ok(acc)
    ELSE LET rule == Head(rules)
             matched == test_rule_against_email(rule, email)
             recorded ==
                 [matches_by_rule |-> [acc.matches_by_rule EXCEPT ![rule.name] = @ + 1],
                  match_results |->
                      Append(acc.match_results,
                             [email |-> email, rule |-> rule,
                              matched |-> TRUE, actions |-> rule.actions])]
         IN  IF ~HasAttr(rule, "enabled") THEN NoAttribute("enabled")
             ELSE IF ~rule["enabled"] THEN RuleLoop(Tail(rules), email, acc)
             ELSE IF ~IsOk(matched) THEN matched
             ELSE IF ~matched.val THEN RuleLoop(Tail(rules), email, acc)
             ELSE IF HasStopAction(rule) THEN Ok(recorded)
             ELSE RuleLoop(Tail(rules), email, recorded)

\* line 68: for email in emails
RECURSIVE EmailLoop(_, _, _)
EmailLoop(rules, mails, acc) ==
    IF mails = <<>> THEN Ok(acc)
    ELSE LET after == RuleLoop(rules, Head(mails), acc)
         IN  IF ~IsOk(after) THEN after ELSE EmailLoop(rules, Tail(mails), after.val)

\* match_rate, a float, is the pair <<numerator, denominator>>
test_filter(filter, mails) ==
    IF mails = <<>>
    THEN Ok([total_emails |-> 0, matched_emails |-> 0, match_rate |-> <<0, 1>>,
             matches_by_rule |-> <<>>, match_results |-> <<>>])
    ELSE LET names == {filter.rules[i].name : i \in 1..Len(filter.rules)}
             done == EmailLoop(filter.rules, mails,
                               [matches_by_rule |-> [n \in names |-> 0],
                                match_results |-> <<>>])
         IN  IF ~IsOk(done) THEN done
             ELSE Ok([total_emails |-> Len(mails),
                      matched_emails |-> Len(done.val.match_results),
                      match_rate |-> <<Len(done.val.match_results), Len(mails)>>,
                      matches_by_rule |-> done.val.matches_by_rule,
                      match_results |-> done.val.match_results])

\* lines 197-203: for rule in sieve_filter.rules; Ok(matched_any)
RECURSIVE MatchedAny(_, _)
MatchedAny(rules, email) ==
    IF rules = <<>> THEN Ok(FALSE)
    ELSE IF ~HasAttr(Head(rules), "enabled") THEN NoAttribute("enabled")
    ELSE IF ~Head(rules)["enabled"] THEN MatchedAny(Tail(rules), email)
    ELSE Bind(test_rule_against_email(Head(rules), email),
              LAMBDA matched : IF matched THEN Ok(TRUE)
                               ELSE MatchedAny(Tail(rules), email))

\* lines 195-206: for email in emails
RECURSIVE UnmatchedLoop(_, _, _)
UnmatchedLoop(rules, mails, unmatched) ==
    IF mails = <<>> THEN Ok(unmatched)
    ELSE Bind(MatchedAny(rules, Head(mails)),
              LAMBDA matched_any :
                  UnmatchedLoop(rules, Tail(mails),
                                IF matched_any THEN unmatched
                                ELSE Append(unmatched, Head(mails))))

find_unmatched_emails(filter, mails) == UnmatchedLoop(filter.rules, mails, <<>>)

\* MatchResult (lines 22-29)
MatchResult(email, rule, matched, actions) ==
    [email |-> email, rule |-> rule, matched |-> matched, actions |-> actions]

\* lines 226-232: for action in match_result.actions
RECURSIVE ActionLoop(_, _)
ActionLoop(actions, sim) ==
    IF actions = <<>> THEN Ok(sim)
    ELSE IF EnumEqualsStr(Head(actions).action_type, "fileinto")
    THEN IF ~HasAttr(Head(actions), "value") THEN NoAttribute("value")
         ELSE ActionLoop(Tail(actions), [sim EXCEPT !.new_folder = Head(actions)["value"]])
    ELSE IF EnumEqualsStr(Head(actions).action_type, "mark_as_read")
    THEN ActionLoop(Tail(actions), [sim EXCEPT !.marked_as_read = TRUE])
    ELSE IF EnumEqualsStr(Head(actions).action_type, "stop")
    THEN ActionLoop(Tail(actions), [sim EXCEPT !.stopped_processing = TRUE])
    ELSE ActionLoop(Tail(actions), sim)

simulate_actions(match_result) ==
    ActionLoop(match_result.actions,
               [original_folder |-> match_result.email.folder,
                marked_as_read |-> FALSE,
                stopped_processing |-> FALSE,
                new_folder |-> match_result.email.folder])

(***************************************************************************)
(* Construction of a FilterCondition, on each of its paths.                *)
(***************************************************************************)
CondFields == {"", "from", "subject"}
CondValues ==
    {"", "order", "a,b", "test.com", "Test.com", "mail.com", "localhost",
     "nodot", "amazon.de", "github.com"}
CondPatterns ==
    {"", "hello", "subject:", "subject:order", "from:", "from:@", "from:@test.com",
     "from:@Example.ORG", "from:@bank.de", "from:@amazon.de", "from:bob", " from:@nodot "}

CondInputs ==
    [path : {"direct"}, condition_type : ConditionType, field : CondFields,
     match_type : MatchType, value : CondValues]
    \cup [path : {"header_contains"}, field : CondFields, value : CondValues]
    \cup [path : {"address_domain_is"}, field : CondFields, value : CondValues]
    \cup [path : {"from_pattern"}, pattern : CondPatterns]

Construct(in) ==
    CASE in.path = "direct" ->
            FilterCondition(in.condition_type, in.field, in.match_type, in.value)
      [] in.path = "header_contains" -> header_contains(in.field, in.value)
      [] in.path = "address_domain_is" -> address_domain_is(in.field, in.value)
      [] in.path = "from_pattern" -> from_pattern(in.pattern)

NoCond == [path |-> "none"]

InitCond ==
    /\ mode = "cond"
    /\ pc = "start"
    /\ cond_in \in CondInputs
    /\ cond_out = NotRun
    /\ categories = <<>>
    /\ ai_response = <<>>
    /\ gen_out = NotRun
    /\ rule_out = NotRun
    /\ rule_src = <<>>
    /\ sieve_filter = <<>>
    /\ emails = <<>>
    /\ test_out = NotRun
    /\ validation = NotRun
    /\ unmatched_out = NotRun
    /\ simulated = NotRun
    /\ detector = <<>>
    /\ detected = NotRun
    /\ objects = <<>>
    /\ last_call = NotRun
    /\ suggested = NotRun
    /\ grouped = NotRun
    /\ use_case = <<>>
    /\ ollama = <<>>

ConstructCondition ==
    /\ mode = "cond"
    /\ pc = "start"
    /\ cond_out' = Construct(cond_in)
    /\ pc' = "done"
    /\ UNCHANGED <<mode, cond_in, categories, ai_response, gen_out, rule_out,
                   rule_src, sieve_filter, emails, test_out,
                   validation, unmatched_out, simulated, detector, detected,
                   objects, last_call, suggested, grouped, use_case, ollama>>

NextCond == ConstructCondition

SpecCond == InitCond /\ [][NextCond]_vars

(***************************************************************************)
(* FilterCondition.is_valid_domain on domains in any letter case.          *)
(***************************************************************************)
MaxCapitals == 2

\* str.upper() on one character
UpperChar(c) ==
    IF \E i \in 1..Len(LowerAlpha) : CharAt(LowerAlpha, i) = c
    THEN CharAt(UpperAlpha, CHOOSE i \in 1..Len(LowerAlpha) : CharAt(LowerAlpha, i) = c)
    ELSE c

\* the number of upper-case letters of s
CountCapitals(s) == Cardinality({i \in 1..Len(s) : LowerChar(CharAt(s, i)) # CharAt(s, i)})

\* the domains a caller starts from: the two sets, names without a dot, real domains
DomainPool ==
    INVALID_DOMAINS \cup GENERIC_DOMAINS
    \cup {"", "intranet", "com", "github.com", "amazon.de", "mail.google.com"}

\* cond_in.base remembers the domain as drawn from DomainPool
InitDomain ==
    /\ mode = "domain"
    /\ pc = "start"
    /\ \E d \in DomainPool : cond_in = [path |-> "is_valid_domain", domain |-> d, base |-> d]
    /\ cond_out = NotRun
    /\ categories = <<>>
    /\ ai_response = <<>>
    /\ gen_out = NotRun
    /\ rule_out = NotRun
    /\ rule_src = <<>>
    /\ sieve_filter = <<>>
    /\ emails = <<>>
    /\ test_out = NotRun
    /\ validation = NotRun
    /\ unmatched_out = NotRun
    /\ simulated = NotRun
    /\ detector = <<>>
    /\ detected = NotRun
    /\ objects = <<>>
    /\ last_call = NotRun
    /\ suggested = NotRun
    /\ grouped = NotRun
    /\ use_case = <<>>
    /\ ollama = <<>>

\* the caller writes one more letter of the domain in upper case
Capitalise ==
    /\ mode = "domain"
    /\ pc = "start"
    /\ CountCapitals(cond_in.domain) < MaxCapitals
    /\ \E i \in 1..Len(cond_in.domain) :
          /\ UpperChar(CharAt(cond_in.domain, i)) # CharAt(cond_in.domain, i)
          /\ cond_in' = [cond_in EXCEPT !.domain =
                            SubSeq(@, 1, i - 1) \o UpperChar(CharAt(@, i))
                                \o SubSeq(@, i + 1, Len(@))]
    /\ UNCHANGED <<mode, pc, cond_out, categories, ai_response, gen_out, rule_out,
                   rule_src, sieve_filter, emails, test_out,
                   validation, unmatched_out, simulated, detector, detected,
                   objects, last_call, suggested, grouped, use_case, ollama>>

ValidateDomain ==
    /\ mode = "domain"
    /\ pc = "start"
    /\ cond_out' = Ok(is_valid_domain(cond_in.domain))
    /\ pc' = "done"
    /\ UNCHANGED <<mode, cond_in, categories, ai_response, gen_out, rule_out,
                   rule_src, sieve_filter, emails, test_out,
                   validation, unmatched_out, simulated, detector, detected,
                   objects, last_call, suggested, grouped, use_case, ollama>>

NextDomain == Capitalise \/ ValidateDomain

SpecDomain == InitDomain /\ [][NextDomain]_vars

(***************************************************************************)
(* FilterGenerator.generate_filter_from_categories on category trees.      *)
(***************************************************************************)
MaxNodes == 3

StrList(ss) == List([i \in 1..Len(ss) |-> Str(ss[i])])

Cat(name, description, patterns, suggested_folder, confidence) ==
    [name |-> Str(name), description |-> Str(description), patterns |-> StrList(patterns),
     suggested_folder |-> Str(suggested_folder), confidence |-> Num(confidence),
     subcategories |-> NoneV]

\* the categories a node of the input tree is drawn from
CategoryPool ==
    {Cat("Security", "", <<"subject:alert">>, "Security", 9),
     Cat("Security", "", <<"subject:alert">>, "Security", 4),
     Cat("Shopping", "", <<"subject:order,bestellt", "from:@amazon.de">>, "Shopping", 9),
     Cat("Shopping", "", <<"from:@test.com", "subject:">>, "Junk", 9),
     Cat("Shopping", "", <<>>, "Shopping", 9),
     Cat("Workshop", "", <<"from:@github.com">>, "Dev", 9),
     Cat("Workshop", "Bank invoices", <<"from:@test.com", "subject:invoice">>, "Finance", 5),
     Cat("Misc", "", <<"hello">>, "Other", 9),
     Cat("Misc", "", <<"subject:x">>, "", 9),
     Cat("News", "", <<"from:news@a.de,info@b.de">>, "News", 9)}

SubcategoriesOf(cat) ==
    IF TypeOf(cat.subcategories) = "list" THEN ValOf(cat.subcategories) ELSE <<>>

WithSubcategories(cat, subs) ==
    [cat EXCEPT !.subcategories = IF subs = <<>> THEN NoneV ELSE List(subs)]

RECURSIVE CountCategories(_)
\* the number of CategoryPattern objects of a list, subcategories included
CountCategories(cats) ==
    IF cats = <<>> THEN 0
    ELSE 1 + CountCategories(SubcategoriesOf(Head(cats))) + CountCategories(Tail(cats))

RECURSIVE LastDepth(_)
\* the nesting depth of the category added last
LastDepth(cats) ==
    IF cats = <<>> THEN 0 ELSE 1 + LastDepth(SubcategoriesOf(cats[Len(cats)]))

RECURSIVE AppendAtDepth(_, _, _)
\* cats with cat appended to the list that is d levels below the last top-level category
AppendAtDepth(cats, d, cat) ==
    IF d = 0 THEN Append(cats, cat)
    ELSE [cats EXCEPT ![Len(cats)] =
            WithSubcategories(@, AppendAtDepth(SubcategoriesOf(@), d - 1, cat))]

InitGen ==
    /\ mode = "gen"
    /\ pc = "start"
    /\ cond_in = NoCond
    /\ cond_out = NotRun
    /\ categories = <<>>
    /\ ai_response = <<>>
    /\ gen_out = NotRun
    /\ rule_out = NotRun
    /\ rule_src = <<>>
    /\ sieve_filter = <<>>
    /\ emails = <<>>
    /\ test_out = NotRun
    /\ validation = NotRun
    /\ unmatched_out = NotRun
    /\ simulated = NotRun
    /\ detector = <<>>
    /\ detected = NotRun
    /\ objects = <<>>
    /\ last_call = NotRun
    /\ suggested = NotRun
    /\ grouped = NotRun
    /\ use_case = <<>>
    /\ ollama = <<>>

\* the caller builds its input: one more CategoryPattern, top-level or as the last
\* subcategory of the category added last (or of one of its ancestors)
AddCategory ==
    /\ mode = "gen"
    /\ pc = "start"
    /\ CountCategories(categories) < MaxNodes
    /\ \E cat \in CategoryPool, d \in 0..LastDepth(categories) :
          categories' = AppendAtDepth(categories, d, cat)
    /\ UNCHANGED <<mode, pc, cond_in, cond_out, ai_response, gen_out, rule_out,
                   rule_src, sieve_filter, emails, test_out,
                   validation, unmatched_out, simulated, detector, detected,
                   objects, last_call, suggested, grouped, use_case, ollama>>

Generate ==
    /\ mode = "gen"
    /\ pc = "start"
    /\ \E out \in {generate_filter_from_categories(categories)} :
          /\ gen_out' = IF IsOk(out) THEN Ok(out.val.filter) ELSE out
          /\ rule_src' = IF IsOk(out) THEN out.val.src ELSE <<>>
    /\ pc' = "done"
    /\ UNCHANGED <<mode, cond_in, cond_out, categories, ai_response, rule_out,
                   sieve_filter, emails, test_out,
                   validation, unmatched_out, simulated, detector, detected,
                   objects, last_call, suggested, grouped, use_case, ollama>>

(***************************************************************************)
(* FilterGenerator._create_rule_from_category on one category.             *)
(***************************************************************************)
MaxPatterns == 2

PatternPool ==
    {"", "hello", "subject:", "subject:order", "subject:order,bestellt", "subject:,",
     "from:@test.com", "from:@amazon.de", "from:bob"}

FolderPool == {"", "Shopping"}

InitRule ==
    /\ mode = "rule"
    /\ pc = "start"
    /\ cond_in = NoCond
    /\ cond_out = NotRun
    /\ \E folder \in FolderPool :
          categories = <<Cat("Shopping", "Orders", <<>>, folder, 9)>>
    /\ ai_response = <<>>
    /\ gen_out = NotRun
    /\ rule_out = NotRun
    /\ rule_src = <<>>
    /\ sieve_filter = <<>>
    /\ emails = <<>>
    /\ test_out = NotRun
    /\ validation = NotRun
    /\ unmatched_out = NotRun
    /\ simulated = NotRun
    /\ detector = <<>>
    /\ detected = NotRun
    /\ objects = <<>>
    /\ last_call = NotRun
    /\ suggested = NotRun
    /\ grouped = NotRun
    /\ use_case = <<>>
    /\ ollama = <<>>

\* the caller appends one more pattern string to category.patterns
AddPattern ==
    /\ mode = "rule"
    /\ pc = "start"
    /\ Len(ValOf(categories[1].patterns)) < MaxPatterns
    /\ \E pattern \in PatternPool :
          categories' = [categories EXCEPT ![1].patterns =
                            List(Append(ValOf(@), Str(pattern)))]
    /\ UNCHANGED <<mode, pc, cond_in, cond_out, ai_response, gen_out, rule_out,
                   rule_src, sieve_filter, emails, test_out,
                   validation, unmatched_out, simulated, detector, detected,
                   objects, last_call, suggested, grouped, use_case, ollama>>

CreateRule ==
    /\ mode = "rule"
    /\ pc = "start"
    /\ rule_out' = create_rule_from_category(categories[1])
    /\ pc' = "done"
    /\ UNCHANGED <<mode, cond_in, cond_out, categories, ai_response, gen_out,
                   rule_src, sieve_filter, emails, test_out,
                   validation, unmatched_out, simulated, detector, detected,
                   objects, last_call, suggested, grouped, use_case, ollama>>

NextRule == AddPattern \/ CreateRule

SpecRule == InitRule /\ [][NextRule]_vars

(***************************************************************************)
(* FilterCondition.from_pattern_multi, and the rule built from it, on      *)
(* patterns subject:W1,...,Wn.                                             *)
(***************************************************************************)
MaxKeywords == 3

\* the keywords as the AI layer writes them between the commas
KeywordPool == {"order", "bestellt", " rechnung ", "", " "}

KeywordCategory(pattern) == Cat("Shopping", "Orders", <<pattern>>, "Shopping", 9)

\* cond_in.keywords remembers W1,...,Wn; cond_in.pattern is "subject:W1,...,Wn"
InitMulti ==
    /\ mode = "multi"
    /\ pc = "start"
    /\ \E kw \in KeywordPool :
          /\ cond_in = [path |-> "from_pattern_multi", pattern |-> "subject:" \o kw,
                        keywords |-> <<kw>>]
          /\ categories = <<KeywordCategory("subject:" \o kw)>>
    /\ cond_out = NotRun
    /\ ai_response = <<>>
    /\ gen_out = NotRun
    /\ rule_out = NotRun
    /\ rule_src = <<>>
    /\ sieve_filter = <<>>
    /\ emails = <<>>
    /\ test_out = NotRun
    /\ validation = NotRun
    /\ unmatched_out = NotRun
    /\ simulated = NotRun
    /\ detector = <<>>
    /\ detected = NotRun
    /\ objects = <<>>
    /\ last_call = NotRun
    /\ suggested = NotRun
    /\ grouped = NotRun
    /\ use_case = <<>>
    /\ ollama = <<>>

\* the AI layer appends a comma and one more keyword
AddKeyword ==
    /\ mode = "multi"
    /\ pc = "start"
    /\ Len(cond_in.keywords) < MaxKeywords
    /\ \E kw \in KeywordPool :
          /\ cond_in' = [cond_in EXCEPT !.pattern = @ \o "," \o kw,
                                        !.keywords = Append(@, kw)]
          /\ categories' = <<KeywordCategory(cond_in.pattern \o "," \o kw)>>
    /\ UNCHANGED <<mode, pc, cond_out, ai_response, gen_out, rule_out, rule_src,
                   sieve_filter, emails, test_out,
                   validation, unmatched_out, simulated, detector, detected,
                   objects, last_call, suggested, grouped, use_case, ollama>>

\* from_pattern_multi on the pattern, and _create_rule_from_category on a
\* category that has this one pattern
ExpandPattern ==
    /\ mode = "multi"
    /\ pc = "start"
    /\ cond_out' = from_pattern_multi(cond_in.pattern)
    /\ rule_out' = create_rule_from_category(categories[1])
    /\ pc' = "done"
    /\ UNCHANGED <<mode, cond_in, categories, ai_response, gen_out, rule_src,
                   sieve_filter, emails, test_out,
                   validation, unmatched_out, simulated, detector, detected,
                   objects, last_call, suggested, grouped, use_case, ollama>>

NextMulti == AddKeyword \/ ExpandPattern

SpecMulti == InitMulti /\ [][NextMulti]_vars

(***************************************************************************)
(* FilterGenerator.generate_filter_from_raw_response on raw AI responses.  *)
(***************************************************************************)
MaxEntries == 2

GoodSecurity ==
    [name |-> Str("Security"), description |-> Str("Alerts"),
     patterns |-> StrList(<<"subject:alert">>), suggested_folder |-> Str("Security"),
     confidence |-> Num(9)]

GoodShopping ==
    [name |-> Str("Shopping"), description |-> Str("Orders"),
     patterns |-> StrList(<<"subject:order">>), suggested_folder |-> Str("Shopping"),
     confidence |-> Num(9)]

Without(d, key) == [k \in DOMAIN d \ {key} |-> d[k]]
With(d, key, value) == [k \in DOMAIN d \cup {key} |-> IF k = key THEN value ELSE d[k]]

\* entries of the categories array: two well-formed ones, and GoodShopping with
\* one key missing or one value of another type
RawPool ==
    <<Dict(GoodSecurity),
      Dict(GoodShopping),
      Dict(With(GoodSecurity, "subcategories", List(<<Dict(GoodShopping)>>))),
      Dict(Without(GoodShopping, "name")),
      Dict(Without(GoodShopping, "patterns")),
      Dict(Without(GoodShopping, "suggested_folder")),
      Dict(Without(GoodShopping, "confidence")),
      Dict(With(GoodShopping, "confidence", Str("high"))),
      Dict(With(GoodShopping, "patterns", Num(5))),
      Dict(With(GoodShopping, "patterns", List(<<Num(5)>>))),
      Dict(With(GoodShopping, "patterns", Str("subject:z"))),
      Dict(With(GoodShopping, "name", Num(5))),
      Dict(With(GoodShopping, "subcategories", List(<<Num(3)>>))),
      Num(7),
      Str("Shopping")>>

InitRaw ==
    /\ mode = "raw"
    /\ pc = "start"
    /\ cond_in = NoCond
    /\ cond_out = NotRun
    /\ categories = <<>>
    /\ ai_response \in {<<>>, [categories |-> <<>>]}
    /\ gen_out = NotRun
    /\ rule_out = NotRun
    /\ rule_src = <<>>
    /\ sieve_filter = <<>>
    /\ emails = <<>>
    /\ test_out = NotRun
    /\ validation = NotRun
    /\ unmatched_out = NotRun
    /\ simulated = NotRun
    /\ detector = <<>>
    /\ detected = NotRun
    /\ objects = <<>>
    /\ last_call = NotRun
    /\ suggested = NotRun
    /\ grouped = NotRun
    /\ use_case = <<>>
    /\ ollama = <<>>

\* the AI layer appends one more entry to the categories array
AddEntry ==
    /\ mode = "raw"
    /\ pc = "start"
    /\ "categories" \in DOMAIN ai_response
    /\ Len(ai_response["categories"]) < MaxEntries
    /\ \E i \in 1..Len(RawPool) :
          ai_response' = [categories |-> Append(ai_response["categories"], RawPool[i])]
    /\ UNCHANGED <<mode, pc, cond_in, cond_out, categories, gen_out, rule_out,
                   rule_src, sieve_filter, emails, test_out,
                   validation, unmatched_out, simulated, detector, detected,
                   objects, last_call, suggested, grouped, use_case, ollama>>

GenerateFromRaw ==
    /\ mode = "raw"
    /\ pc = "start"
    /\ \E out \in {generate_filter_from_raw_response(ai_response)} :
          /\ gen_out' = IF IsOk(out) THEN Ok(out.val.filter) ELSE out
          /\ rule_src' = IF IsOk(out) THEN out.val.src ELSE <<>>
    /\ pc' = "done"
    /\ UNCHANGED <<mode, cond_in, cond_out, categories, ai_response, rule_out,
                   sieve_filter, emails, test_out,
                   validation, unmatched_out, simulated, detector, detected,
                   objects, last_call, suggested, grouped, use_case, ollama>>

NextRaw == AddEntry \/ GenerateFromRaw

SpecRaw == InitRaw /\ [][NextRaw]_vars

(***************************************************************************)
(* FilterMatcher.test_filter on hand-built and on generated filters.       *)
(***************************************************************************)
MaxRules == 2
MaxEmails == 2

Val(o) == o.val

SubjectOrder == Val(header_contains("subject", "order"))
SubjectAlert == Val(header_contains("subject", "alert"))
PriorityHigh == Val(header_contains("X-Priority", "high"))
FromShop == Val(FilterCondition("header_is", "from", ":is", "orders@shop.de"))
FileShop == Val(fileinto(Str("Shopping")))
FileAlerts == Val(fileinto(Str("Alerts")))

\* the rules a hand-built filter is made of
RulePool ==
    {Val(FilterRule_create(<<SubjectOrder>>, <<FileShop, Val(stop)>>, "anyof", "Orders", "")),
     Val(FilterRule_create(<<SubjectOrder, FromShop>>, <<FileShop>>, "allof", "Shop", "")),
     Val(FilterRule_create(<<SubjectAlert, FromShop>>, <<FileAlerts>>, "anyof", "Alerts", "")),
     Val(FilterRule_create(<<SubjectAlert>>, <<Val(keep), Val(stop)>>, "anyof", "Keep", "")),
     Val(FilterRule_create(<<PriorityHigh>>, <<Val(mark_as_read), FileAlerts>>, "anyof",
                           "Priority", ""))}

EmailPool ==
    {[sender |-> "orders@shop.de", subject |-> "Your Order", body |-> "", folder |-> "INBOX"],
     [sender |-> "bob@example.io", subject |-> "Alert: order late", body |-> "x",
      folder |-> "INBOX"],
     [sender |-> "bob@example.io", subject |-> "Hello", body |-> "", folder |-> "Work"]}

\* the category lists a generated filter under test comes from
MatchCategoryPool ==
    {Cat("Security", "", <<"subject:alert">>, "Security", 9),
     Cat("Shopping", "", <<"subject:order,bestellt", "from:@amazon.de">>, "Shopping", 9)}

MatchCategoryLists ==
    {<<c>> : c \in MatchCategoryPool} \cup {<<c, d>> : c, d \in MatchCategoryPool}

\* the filter is hand-built (categories = <<>>, rules come by add_rule) or the one
\* generate_filter_from_categories returns for categories
InitMatch ==
    /\ mode = "match"
    /\ pc = "start"
    /\ cond_in = NoCond
    /\ cond_out = NotRun
    /\ categories \in {<<>>} \cup MatchCategoryLists
    /\ ai_response = <<>>
    /\ gen_out = NotRun
    /\ rule_out = NotRun
    /\ rule_src = <<>>
    /\ sieve_filter =
          IF categories = <<>> THEN Val(SieveFilter_create("Hand built", "", <<>>, TRUE, 0))
          ELSE Val(generate_filter_from_categories(categories)).filter
    /\ emails = <<>>
    /\ test_out = NotRun
    /\ validation = NotRun
    /\ unmatched_out = NotRun
    /\ simulated = NotRun
    /\ detector = <<>>
    /\ detected = NotRun
    /\ objects = <<>>
    /\ last_call = NotRun
    /\ suggested = NotRun
    /\ grouped = NotRun
    /\ use_case = <<>>
    /\ ollama = <<>>

AddRule ==
    /\ mode = "match"
    /\ pc = "start"
    /\ categories = <<>>
    /\ Len(sieve_filter.rules) < MaxRules
    /\ \E rule \in RulePool : sieve_filter' = add_rule(sieve_filter, rule)
    /\ UNCHANGED <<mode, pc, cond_in, cond_out, categories, ai_response, gen_out,
                   rule_out, rule_src, emails, test_out,
                   validation, unmatched_out, simulated, detector, detected,
                   objects, last_call, suggested, grouped, use_case, ollama>>

\* the fetch layer delivers one more Email; its id is fresh
AddEmail ==
    /\ mode = "match"
    /\ pc = "start"
    /\ Len(emails) < MaxEmails
    /\ \E email \in EmailPool :
          emails' = Append(emails, [id |-> Len(emails) + 1, sender |-> email.sender,
                                    subject |-> email.subject, body |-> email.body,
                                    folder |-> email.folder])
    /\ UNCHANGED <<mode, pc, cond_in, cond_out, categories, ai_response, gen_out,
                   rule_out, rule_src, sieve_filter, test_out,
                   validation, unmatched_out, simulated, detector, detected,
                   objects, last_call, suggested, grouped, use_case, ollama>>

TestFilter ==
    /\ mode = "match"
    /\ pc = "start"
    /\ test_out' = test_filter(sieve_filter, emails)
    /\ pc' = "done"
    /\ UNCHANGED <<mode, cond_in, cond_out, categories, ai_response, gen_out,
                   rule_out, rule_src, sieve_filter, emails,
                   validation, unmatched_out, simulated, detector, detected,
                   objects, last_call, suggested, grouped, use_case, ollama>>

\* the caller goes on to find_unmatched_emails with the same filter and emails
FindUnmatched ==
    /\ mode = "match"
    /\ pc = "done"
    /\ unmatched_out = NotRun
    /\ unmatched_out' = find_unmatched_emails(sieve_filter, emails)
    /\ UNCHANGED <<mode, pc, cond_in, cond_out, categories, ai_response, gen_out,
                   rule_out, rule_src, sieve_filter, emails, test_out,
                   validation, simulated, detector, detected,
                   objects, last_call, suggested, grouped, use_case, ollama>>

\* the caller simulates the actions of one rule of the filter on one of the emails
SimulateActions ==
    /\ mode = "match"
    /\ pc = "done"
    /\ simulated = NotRun
    /\ \E e \in 1..Len(emails), r \in 1..Len(sieve_filter.rules) :
          LET match_result == MatchResult(emails[e], sieve_filter.rules[r], TRUE,
                                          sieve_filter.rules[r].actions)
          IN  simulated' = [match_result |-> match_result,
                            out |-> simulate_actions(match_result)]
    /\ UNCHANGED <<mode, pc, cond_in, cond_out, categories, ai_response, gen_out,
                   rule_out, rule_src, sieve_filter, emails, test_out,
                   validation, unmatched_out, detector, detected,
                   objects, last_call, suggested, grouped, use_case, ollama>>

NextMatch == AddRule \/ AddEmail \/ TestFilter \/ FindUnmatched \/ SimulateActions

SpecMatch == InitMatch /\ [][NextMatch]_vars

(***************************************************************************)
(* FilterValidator (services/filter_validator.py)                          *)
(*                                                                         *)
(* A ValidationIssue is a record [severity, rule_name, message]; the       *)
(* suggestion, a text derived from the same values, is left out.           *)
(***************************************************************************)
ValidationIssue(severity, rule_name, message) ==
    [severity |-> severity, rule_name |-> rule_name, message |-> message]

\* rule.name or "Unnamed"
NameOr(rule) == IF rule.name = "" THEN "Unnamed" ELSE rule.name

RECURSIVE check_placeholder_domains(_, _)
check_placeholder_domains(rule, conditions) ==
    IF conditions = <<>> THEN <<>>
    ELSE (IF /\ Head(conditions).condition_type = "address_domain"
             /\ Lower(Head(conditions).value) \in INVALID_DOMAINS
          THEN <<ValidationIssue("error", NameOr(rule),
                                 "Placeholder domain detected: "
                                     \o Lower(Head(conditions).value))>>
          ELSE <<>>)
         \o check_placeholder_domains(rule, Tail(conditions))

RECURSIVE check_generic_domains(_, _)
check_generic_domains(rule, conditions) ==
    IF conditions = <<>> THEN <<>>
    ELSE (IF /\ Head(conditions).condition_type = "address_domain"
             /\ Lower(Head(conditions).value) \in GENERIC_DOMAINS
          THEN <<ValidationIssue("warning", NameOr(rule),
                                 "Overly generic domain: "
                                     \o Lower(Head(conditions).value))>>
          ELSE <<>>)
         \o check_generic_domains(rule, Tail(conditions))

RECURSIVE check_comma_in_values(_, _)
check_comma_in_values(rule, conditions) ==
    IF conditions = <<>> THEN <<>>
    ELSE (IF Contains(Head(conditions).value, ",")
          THEN <<ValidationIssue("error", NameOr(rule),
                                 "Comma found in condition value: '"
                                     \o Head(conditions).value \o "'")>>
          ELSE <<>>)
         \o check_comma_in_values(rule, Tail(conditions))

\* the checks run until the first one that finds something
validate_rule_FirstFinding(rule) ==
    IF check_placeholder_domains(rule, rule.conditions) # <<>>
    THEN check_placeholder_domains(rule, rule.conditions)
    ELSE IF check_generic_domains(rule, rule.conditions) # <<>>
    THEN check_generic_domains(rule, rule.conditions)
    ELSE check_comma_in_values(rule, rule.conditions)

validate_rule(rule) ==
    check_placeholder_domains(rule, rule.conditions)
    \o check_generic_domains(rule, rule.conditions)
    \o check_comma_in_values(rule, rule.conditions)
    \o (IF rule.conditions = <<>>
        THEN <<ValidationIssue("error", NameOr(rule), "Rule has no conditions")>>
        ELSE <<>>)
    \o (IF rule.actions = <<>>
        THEN <<ValidationIssue("error", NameOr(rule), "Rule has no actions")>>
        ELSE <<>>)

\* lines 203-207: the folder attribute of the first action that has one, else None
RECURSIVE TargetFolder(_)
TargetFolder(actions) ==
    IF actions = <<>> THEN NoneV
    ELSE IF HasAttr(Head(actions), "folder") THEN Head(actions)["folder"]
    ELSE TargetFolder(Tail(actions))

\* lines 209-210: the rules the loop does not skip
Targeted(rules) == {i \in 1..Len(rules) : ~Falsy(TargetFolder(rules[i].actions))}

\* lines 213-216
RuleDomains(rule) ==
    {Lower(rule.conditions[i].value) :
        i \in {j \in 1..Len(rule.conditions) :
                  rule.conditions[j].condition_type = "address_domain"}}

\* the keys of folder_conditions, in insertion order
RECURSIVE FolderKeys(_, _, _)
FolderKeys(rules, i, keys) ==
    IF i > Len(rules) THEN keys
    ELSE IF i \in Targeted(rules)
            /\ \A k \in 1..Len(keys) : keys[k] # TargetFolder(rules[i].actions)
    THEN FolderKeys(rules, i + 1, Append(keys, TargetFolder(rules[i].actions)))
    ELSE FolderKeys(rules, i + 1, keys)

\* lines 223-230: domain_to_folders[domain]
DomainFolders(rules, domain) ==
    SelectSeq(FolderKeys(rules, 1, <<>>),
              LAMBDA folder : \E i \in Targeted(rules) :
                                 /\ TargetFolder(rules[i].actions) = folder
                                 /\ domain \in RuleDomains(rules[i]))

\* lines 233-234: the domains reported
OverlapDomains(rules) ==
    {domain \in UNION {RuleDomains(rules[i]) : i \in Targeted(rules)} :
        Len(DomainFolders(rules, domain)) > 1}

\* ', '.join(folders)
RECURSIVE Join(_)
Join(folders) ==
    IF folders = <<>> THEN ""
    ELSE IF Len(folders) = 1 THEN ValOf(folders[1])
    ELSE ValOf(folders[1]) \o ", " \o Join(Tail(folders))

\* the enumerations of a set: domains are collected in a set, whose iteration
\* order decides the order of the keys of domain_to_folders
Orderings(S) ==
    {order \in [1..Cardinality(S) -> S] :
        \A i, j \in 1..Cardinality(S) : order[i] = order[j] => i = j}

\* order enumerates OverlapDomains(rules)
check_rule_overlap(rules, order) ==
    [k \in 1..Len(order) |->
        ValidationIssue("warning", "Multiple Rules",
                        "Domain '" \o order[k] \o "' used in multiple folders: "
                            \o Join(DomainFolders(rules, order[k])))]

RECURSIVE RuleIssues(_)
RuleIssues(rules) ==
    IF rules = <<>> THEN <<>> ELSE validate_rule(Head(rules)) \o RuleIssues(Tail(rules))

validate_filter(filter, order) ==
    IF filter.rules = <<>>
    THEN <<ValidationIssue("error", "Filter", "Filter has no rules")>>
    ELSE RuleIssues(filter.rules) \o check_rule_overlap(filter.rules, order)

(***************************************************************************)
(* SpecGen, continued: the generated filter is handed to the validator.    *)
(***************************************************************************)
ValidateGenerated ==
    /\ mode = "gen"
    /\ pc = "done"
    /\ IsOk(gen_out)
    /\ \E order \in Orderings(OverlapDomains(gen_out.val.rules)) :
          validation' = Ok(validate_filter(gen_out.val, order))
    /\ pc' = "validated"
    /\ UNCHANGED <<mode, cond_in, cond_out, categories, ai_response, gen_out,
                   rule_out, rule_src, sieve_filter, emails, test_out,
                   unmatched_out, simulated, detector, detected,
                   objects, last_call, suggested, grouped, use_case, ollama>>

NextGen == AddCategory \/ Generate \/ ValidateGenerated

SpecGen == InitGen /\ [][NextGen]_vars

(***************************************************************************)
(* SpecValidate: FilterValidator.validate_filter on hand-built filters.    *)
(***************************************************************************)
FromAmazon == Val(address_domain_is("from", "amazon.de"))
FromAmazonUpper == Val(address_domain_is("from", "Amazon.DE"))
FromGithub == Val(address_domain_is("from", "github.com"))
FromPlaceholder == Val(FilterCondition("address_domain", "from", ":is", "example.com"))
FromGeneric == Val(FilterCondition("address_domain", "from", ":is", "mail.com"))
SubjectComma == Val(header_contains("subject", "order,bestellt"))
FileOrders == Val(fileinto(Str("Orders")))

DomainRulePool ==
    {Val(FilterRule_create(<<FromAmazon>>, <<FileShop, Val(stop)>>, "anyof", "Shopping", "")),
     Val(FilterRule_create(<<FromAmazon>>, <<FileOrders, Val(stop)>>, "anyof", "Orders", "")),
     Val(FilterRule_create(<<FromAmazonUpper>>, <<FileOrders>>, "anyof", "Amazon", "")),
     Val(FilterRule_create(<<FromGithub>>, <<FileShop>>, "anyof", "Github", "")),
     Val(FilterRule_create(<<FromGithub, FromAmazon>>, <<FileAlerts, Val(stop)>>, "anyof",
                           "Alerts", "")),
     Val(FilterRule_create(<<FromPlaceholder>>, <<FileShop>>, "anyof", "", "")),
     Val(FilterRule_create(<<FromGeneric>>, <<Val(keep)>>, "anyof", "Generic", "")),
     Val(FilterRule_create(<<SubjectComma>>, <<FileOrders>>, "anyof", "Keywords", ""))}

InitValidate ==
    /\ mode = "validate"
    /\ pc = "start"
    /\ cond_in = NoCond
    /\ cond_out = NotRun
    /\ categories = <<>>
    /\ ai_response = <<>>
    /\ gen_out = NotRun
    /\ rule_out = NotRun
    /\ rule_src = <<>>
    /\ sieve_filter = Val(SieveFilter_create("Hand built", "", <<>>, TRUE, 0))
    /\ emails = <<>>
    /\ test_out = NotRun
    /\ validation = NotRun
    /\ unmatched_out = NotRun
    /\ simulated = NotRun
    /\ detector = <<>>
    /\ detected = NotRun
    /\ objects = <<>>
    /\ last_call = NotRun
    /\ suggested = NotRun
    /\ grouped = NotRun
    /\ use_case = <<>>
    /\ ollama = <<>>

AddDomainRule ==
    /\ mode = "validate"
    /\ pc = "start"
    /\ Len(sieve_filter.rules) < MaxRules
    /\ \E rule \in DomainRulePool : sieve_filter' = add_rule(sieve_filter, rule)
    /\ UNCHANGED <<mode, pc, cond_in, cond_out, categories, ai_response, gen_out,
                   rule_out, rule_src, emails, test_out,
                   validation, unmatched_out, simulated, detector, detected,
                   objects, last_call, suggested, grouped, use_case, ollama>>

ValidateFilter ==
    /\ mode = "validate"
    /\ pc = "start"
    /\ \E order \in Orderings(OverlapDomains(sieve_filter.rules)) :
          validation' = Ok(validate_filter(sieve_filter, order))
    /\ pc' = "done"
    /\ UNCHANGED <<mode, cond_in, cond_out, categories, ai_response, gen_out,
                   rule_out, rule_src, sieve_filter, emails, test_out,
                   unmatched_out, simulated, detector, detected,
                   objects, last_call, suggested, grouped, use_case, ollama>>

MaxConditions == 2

FromPlaceholderUpper == Val(FilterCondition("address_domain", "from", ":is", "Example.COM"))
FromComma == Val(FilterCondition("address_domain", "from", ":is", "mail.com,example.com"))

ConditionPool ==
    {FromAmazon, FromPlaceholder, FromPlaceholderUpper, FromGeneric, SubjectComma, FromComma}

ConditionLists == UNION {[1..n -> ConditionPool] : n \in 1..MaxConditions}

\* validate_rule on one hand-built rule
ValidateRule ==
    /\ mode = "validate"
    /\ pc = "start"
    /\ sieve_filter.rules = <<>>
    /\ \E conditions \in ConditionLists, name \in {"", "Mixed"} :
          /\ last_call' = Val(FilterRule_create(conditions, <<FileShop>>, "anyof", name, ""))
          /\ validation' = Ok(validate_rule(last_call'))
    /\ pc' = "rule"
    /\ UNCHANGED <<mode, cond_in, cond_out, categories, ai_response, gen_out,
                   rule_out, rule_src, sieve_filter, emails, test_out,
                   unmatched_out, simulated, detector, detected,
                   objects, suggested, grouped, use_case, ollama>>

NextValidate == AddDomainRule \/ ValidateFilter \/ ValidateRule

SpecValidate == InitValidate /\ [][NextValidate]_vars

(***************************************************************************)
(* SieveFilter operations (entities/sieve_filter.py)                       *)
(*                                                                         *)
(* id, created_at and updated_at are read by none of the operations and    *)
(* are left out.                                                           *)
(***************************************************************************)
\* list.remove: the list without the first element equal to x
RECURSIVE RemoveFirst(_, _)
RemoveFirst(list, x) ==
    IF list = <<>> THEN <<>>
    ELSE IF Head(list) = x THEN Tail(list)
    ELSE <<Head(list)>> \o RemoveFirst(Tail(list), x)

remove_rule(filter, rule) ==
    IF \A i \in 1..Len(filter.rules) : filter.rules[i] # rule
    THEN Raise("ValueError", "list.remove(x): x not in list")
    ELSE Ok([filter EXCEPT !.rules = RemoveFirst(@, rule)])

enable(filter) == [filter EXCEPT !.enabled = TRUE]

disable(filter) == [filter EXCEPT !.enabled = FALSE]

\* lines 144-148: for i, rule in enumerate(self.rules)
RECURSIVE RuleErrors(_, _)
RuleErrors(rules, i) ==
    IF i > Len(rules) THEN <<>>
    ELSE (IF rules[i].conditions = <<>>
          THEN <<"Rule " \o ToString(i) \o " has no conditions">> ELSE <<>>)
         \o (IF rules[i].actions = <<>>
             THEN <<"Rule " \o ToString(i) \o " has no actions">> ELSE <<>>)
         \o RuleErrors(rules, i + 1)

\* the errors validate collects
ValidateErrors(filter) ==
    (IF filter.name = "" THEN <<"Filter must have a name">> ELSE <<>>)
    \o (IF filter.rules = <<>> THEN <<"Filter must have at least one rule">> ELSE <<>>)
    \o RuleErrors(filter.rules, 1)

\* the tuple (is_valid, list_of_errors)
validate(filter) == <<ValidateErrors(filter) = <<>>, ValidateErrors(filter)>>

(***************************************************************************)
(* SpecEntity: a SieveFilter under create, add_rule, remove_rule, enable,  *)
(* disable, and validate at the end.  The rules a caller holds are the     *)
(* ones the FilterRule constructor returned.                               *)
(***************************************************************************)
EntityNames == {"", "Mail"}

\* what a caller passes to FilterRule.create
EntityRuleOutcomes ==
    {FilterRule_create(conditions, actions, logical_operator, name, "") :
        conditions \in {<<>>, <<SubjectOrder>>, <<SubjectOrder, FromShop>>},
        actions \in {<<>>, <<FileShop>>, <<FileShop, Val(stop)>>},
        logical_operator \in {"anyof", "or"},
        name \in {"", "Orders"}}

\* the rules the caller got
EntityRules == {outcome.val : outcome \in {o \in EntityRuleOutcomes : IsOk(o)}}

NoFilter == <<>>

InitEntity ==
    /\ mode = "entity"
    /\ pc = "start"
    /\ cond_in = NoCond
    /\ cond_out = NotRun
    /\ categories = <<>>
    /\ ai_response = <<>>
    /\ gen_out = NotRun
    /\ rule_out = NotRun
    /\ rule_src = <<>>
    /\ sieve_filter = NoFilter
    /\ emails = <<>>
    /\ test_out = NotRun
    /\ validation = NotRun
    /\ unmatched_out = NotRun
    /\ simulated = NotRun
    /\ detector = <<>>
    /\ detected = NotRun
    /\ objects = <<>>
    /\ last_call = NotRun
    /\ suggested = NotRun
    /\ grouped = NotRun
    /\ use_case = <<>>
    /\ ollama = <<>>

\* SieveFilter.create; a call that raises leaves the caller without a filter
Create ==
    /\ mode = "entity"
    /\ pc = "start"
    /\ \E name \in EntityNames, enabled \in BOOLEAN,
          rules \in {<<>>} \cup {<<rule>> : rule \in EntityRules} :
          LET out == SieveFilter_create(name, "", rules, enabled, 0)
          IN  IF IsOk(out)
              THEN sieve_filter' = out.val /\ pc' = "built"
              ELSE UNCHANGED <<sieve_filter, pc>>
    /\ UNCHANGED <<mode, cond_in, cond_out, categories, ai_response, gen_out,
                   rule_out, rule_src, emails, test_out,
                   validation, unmatched_out, simulated, detector, detected,
                   objects, last_call, suggested, grouped, use_case, ollama>>

\* FilterRule.create, then add_rule with the rule when the constructor returned one
AddBuiltRule ==
    /\ mode = "entity"
    /\ pc = "built"
    /\ Len(sieve_filter.rules) < MaxRules
    /\ \E outcome \in EntityRuleOutcomes :
          IF IsOk(outcome)
          THEN sieve_filter' = add_rule(sieve_filter, outcome.val)
          ELSE UNCHANGED sieve_filter
    /\ UNCHANGED <<mode, pc, cond_in, cond_out, categories, ai_response, gen_out,
                   rule_out, rule_src, emails, test_out,
                   validation, unmatched_out, simulated, detector, detected,
                   objects, last_call, suggested, grouped, use_case, ollama>>

\* remove_rule; a call that raises changes nothing
RemoveRule ==
    /\ mode = "entity"
    /\ pc = "built"
    /\ \E rule \in EntityRules :
          LET out == remove_rule(sieve_filter, rule)
          IN  IF IsOk(out) THEN sieve_filter' = out.val ELSE UNCHANGED sieve_filter
    /\ UNCHANGED <<mode, pc, cond_in, cond_out, categories, ai_response, gen_out,
                   rule_out, rule_src, emails, test_out,
                   validation, unmatched_out, simulated, detector, detected,
                   objects, last_call, suggested, grouped, use_case, ollama>>

Enable ==
    /\ mode = "entity"
    /\ pc = "built"
    /\ sieve_filter' = enable(sieve_filter)
    /\ UNCHANGED <<mode, pc, cond_in, cond_out, categories, ai_response, gen_out,
                   rule_out, rule_src, emails, test_out,
                   validation, unmatched_out, simulated, detector, detected,
                   objects, last_call, suggested, grouped, use_case, ollama>>

Disable ==
    /\ mode = "entity"
    /\ pc = "built"
    /\ sieve_filter' = disable(sieve_filter)
    /\ UNCHANGED <<mode, pc, cond_in, cond_out, categories, ai_response, gen_out,
                   rule_out, rule_src, emails, test_out,
                   validation, unmatched_out, simulated, detector, detected,
                   objects, last_call, suggested, grouped, use_case, ollama>>

Validate ==
    /\ mode = "entity"
    /\ pc = "built"
    /\ validation' = Ok(validate(sieve_filter))
    /\ pc' = "done"
    /\ UNCHANGED <<mode, cond_in, cond_out, categories, ai_response, gen_out,
                   rule_out, rule_src, sieve_filter, emails, test_out,
                   unmatched_out, simulated, detector, detected,
                   objects, last_call, suggested, grouped, use_case, ollama>>

NextEntity == Create \/ AddBuiltRule \/ RemoveRule \/ Enable \/ Disable \/ Validate

SpecEntity == InitEntity /\ [][NextEntity]_vars

(***************************************************************************)
(* PatternDetector (services/pattern_detector.py)                          *)
(*                                                                         *)
(* The detector is the record [min_frequency, min_confidence,              *)
(* max_examples] of its thresholds; min_confidence is in tenths.  A        *)
(* confidence, a float, is the pair <<numerator, denominator>> of the      *)
(* exact quotient; min(1.0, x) is <<1, 1>> when it is x that is cut.       *)
(***************************************************************************)
DetectedPattern(pattern_type, value, frequency, email_count, example_subjects, confidence) ==
    [pattern_type |-> pattern_type, value |-> value, frequency |-> frequency,
     email_count |-> email_count, example_subjects |-> example_subjects,
     confidence |-> confidence]

PatternDetector(min_frequency, min_confidence_tenths, max_examples) ==
    [min_frequency |-> min_frequency, min_confidence |-> min_confidence_tenths,
     max_examples |-> max_examples]

\* EmailAddress.domain
SenderDomain(email) ==
    IF Contains(email.sender, "@") THEN Split(email.sender, "@")[2] ELSE ""

stop_words ==
    {"re", "fwd", "the", "a", "an", "and", "or", "but", "in", "on", "at", "to", "for",
     "of", "with", "by", "from", "up", "out", "if", "about", "as", "into", "through",
     "during", "before", "after"}

\* str.split(): the runs of non-blank characters
Words(s) == SelectSeq(Split(s, " "), LAMBDA word : word # "")

\* lines 171-178
UniqueWords(email) ==
    {Lower(Words(email.subject)[i]) :
        i \in {j \in 1..Len(Words(email.subject)) :
                  /\ Len(Words(email.subject)[j]) >= 3
                  /\ Lower(Words(email.subject)[j]) \notin stop_words}}

\* the keys under which a pass counts an email
KeysOf(kind, email) ==
    CASE kind = "sender_domain" -> {SenderDomain(email)}
      [] kind = "subject_keyword" -> UniqueWords(email)
      [] kind = "sender_address" -> {email.sender}

\* an enumeration of a set; the one the iteration of unique_words takes is
\* not determined by the code (see SortOutcomes)
RECURSIVE SetToSeq(_)
SetToSeq(S) ==
    IF S = {} THEN <<>>
    ELSE <<CHOOSE x \in S : TRUE>> \o SetToSeq(S \ {CHOOSE x \in S : TRUE})

\* the keys of the dict of a pass, in insertion order
RECURSIVE KeysInOrder(_, _, _)
KeysInOrder(kind, mails, keys) ==
    IF mails = <<>> THEN keys
    ELSE KeysInOrder(kind, Tail(mails),
                     keys \o SetToSeq(KeysOf(kind, Head(mails))
                                          \ {keys[k] : k \in 1..Len(keys)}))

\* the emails counted under a key, in collection order
Holders(kind, mails, key) == SelectSeq(mails, LAMBDA email : key \in KeysOf(kind, email))

\* data["subjects"][: self.max_examples]
Examples(holders, max_examples) ==
    [i \in 1..(IF Len(holders) < max_examples THEN Len(holders) ELSE max_examples) |->
        holders[i].subject]

\* the floor of the first two passes used for specific senders too
Floor_Same(kind, min_frequency) == min_frequency

\* lines 106, 189, 233
Floor(kind, min_frequency) ==
    IF kind = "sender_address" THEN min_frequency + 2 ELSE min_frequency

\* count / (total_emails * 0.1), * 0.15, * 0.08
Quotient(kind, count, total) ==
    CASE kind = "sender_domain" -> <<10 * count, total>>
      [] kind = "subject_keyword" -> <<100 * count, 15 * total>>
      [] kind = "sender_address" -> <<100 * count, 8 * total>>

\* min(1.0, count / (total_emails * k))
Confidence(kind, count, total) ==
    IF Quotient(kind, count, total)[1] >= Quotient(kind, count, total)[2]
    THEN <<1, 1>> ELSE Quotient(kind, count, total)

PatternOf(kind, key, mails, det) ==
    LET holders == Holders(kind, mails, key)
    IN  DetectedPattern(kind, key, Len(holders), Len(holders),
                        Examples(holders, det.max_examples),
                        Confidence(kind, Len(holders), Len(mails)))

\* _detect_sender_domain_patterns, _detect_subject_keyword_patterns and
\* _detect_sender_address_patterns, which differ by key, floor and factor
detect_pass(kind, mails, det) ==
    LET keys == KeysInOrder(kind, mails, <<>>)
    IN  SelectSeq([k \in 1..Len(keys) |-> PatternOf(kind, keys[k], mails, det)],
                  LAMBDA p : p.frequency >= Floor(kind, det.min_frequency))

\* a < b for confidences
ConfidenceLess(a, b) == a[1] * b[2] < b[1] * a[2]

\* p.confidence >= self.min_confidence
MeetsMinConfidence(p, det) == p.confidence[1] * 10 >= det.min_confidence * p.confidence[2]

\* a stable descending sort: p goes after every pattern that is not below it
RECURSIVE InsertByConfidence(_, _)
InsertByConfidence(sorted, p) ==
    IF sorted = <<>> THEN <<p>>
    ELSE IF ~ConfidenceLess(Head(sorted).confidence, p.confidence)
    THEN <<Head(sorted)>> \o InsertByConfidence(Tail(sorted), p)
    ELSE <<p>> \o sorted

\* the patterns left in the order of the passes
SortByConfidence_Unsorted(patterns) == patterns

RECURSIVE SortByConfidence(_)
SortByConfidence(patterns) ==
    IF patterns = <<>> THEN <<>>
    ELSE InsertByConfidence(SortByConfidence(SubSeq(patterns, 1, Len(patterns) - 1)),
                            patterns[Len(patterns)])

\* the result for the enumeration SetToSeq and exact quotients
detect_patterns(mails, det) ==
    IF mails = <<>> THEN <<>>
    ELSE SortByConfidence(
             SelectSeq(detect_pass("sender_domain", mails, det)
                           \o detect_pass("subject_keyword", mails, det)
                           \o detect_pass("sender_address", mails, det),
                       LAMBDA p : MeetsMinConfidence(p, det)))

\* the first email counted under a key
FirstHolder(kind, mails, key) == Holders(kind, mails, key)[1]

\* Two neighbours of the result whose order the code does not determine:
\* their exact confidences are equal and either they are keywords first seen
\* in the same subject (the iteration order of the set unique_words decides)
\* or they come from different passes with the quotient not cut to 1.0 (the
\* rounding of the two float quotients decides).
Swappable(p, q, mails) ==
    /\ ~ConfidenceLess(p.confidence, q.confidence)
    /\ ~ConfidenceLess(q.confidence, p.confidence)
    /\ \/ /\ p.pattern_type = "subject_keyword"
          /\ q.pattern_type = "subject_keyword"
          /\ FirstHolder("subject_keyword", mails, p.value)
                = FirstHolder("subject_keyword", mails, q.value)
       \/ /\ p.pattern_type # q.pattern_type
          /\ p.confidence # <<1, 1>>

SwapAt(result, i) ==
    [k \in 1..Len(result) |->
        IF k = i THEN result[i + 1] ELSE IF k = i + 1 THEN result[i] ELSE result[k]]

Swaps(results, mails) ==
    results \cup
    UNION {{SwapAt(result, i) :
               i \in {j \in 1..(Len(result) - 1) :
                         Swappable(result[j], result[j + 1], mails)}} :
           result \in results}

\* the results detect_patterns can return
RECURSIVE SortOutcomes(_, _)
SortOutcomes(results, mails) ==
    IF Swaps(results, mails) = results THEN results
    ELSE SortOutcomes(Swaps(results, mails), mails)

(***************************************************************************)
(* group_emails_by_pattern, analyze_email_distribution and                 *)
(* suggest_folder_for_pattern (services/pattern_detector.py)               *)
(***************************************************************************)
\* lines 267-272: whether an email matches a pattern
PatternMatches(email, pattern) ==
    CASE pattern.pattern_type = "sender_domain" -> SenderDomain(email) = pattern.value
      [] pattern.pattern_type = "subject_keyword" ->
             Contains(Lower(email.subject), Lower(pattern.value))
      [] pattern.pattern_type = "sender_address" -> email.sender = pattern.value
      [] OTHER -> FALSE

group_emails_by_pattern(mails, pattern) ==
    SelectSeq(mails, LAMBDA email : PatternMatches(email, pattern))

\* the folders of the emails in the order of their first occurrence
RECURSIVE FoldersInOrder(_)
FoldersInOrder(mails) ==
    IF mails = <<>> THEN <<>>
    ELSE <<Head(mails).folder>>
             \o SelectSeq(FoldersInOrder(Tail(mails)),
                          LAMBDA folder : folder # Head(mails).folder)

\* Counter(email.folder for email in emails): the items of the dict
analyze_email_distribution(mails) ==
    [k \in 1..Len(FoldersInOrder(mails)) |->
        [folder |-> FoldersInOrder(mails)[k],
         count |-> Len(SelectSeq(mails,
                                 LAMBDA email : email.folder = FoldersInOrder(mails)[k]))]]

\* max(items, key=lambda x: x[1])[0]: the first item with the largest count
MostCommon(items) ==
    items[CHOOSE k \in 1..Len(items) :
              /\ \A j \in 1..Len(items) : items[j].count <= items[k].count
              /\ \A j \in 1..(k - 1) : items[j].count < items[k].count].folder

system_folders == {"INBOX", "Trash", "Spam", "Junk", "Sent"}

\* str.capitalize()
Capitalize(s) ==
    IF s = "" THEN "" ELSE UpperChar(CharAt(s, 1)) \o Lower(SubSeq(s, 2, Len(s)))

\* lines 320-329: the name made from the pattern
NameFromPattern(pattern) ==
    IF /\ pattern.pattern_type = "sender_domain"
       /\ Len(Split(pattern.value, ".")) >= 2
    THEN Capitalize(Split(pattern.value, ".")[Len(Split(pattern.value, ".")) - 1])
    ELSE "Filtered"

\* the most populated of the folders that are not system folders is suggested
suggest_folder_for_pattern_NonSystem(mails, pattern) ==
    IF mails = <<>> THEN "Uncategorized"
    ELSE IF SelectSeq(mails, LAMBDA email : email.folder \notin system_folders) # <<>>
    THEN MostCommon(analyze_email_distribution(
             SelectSeq(mails, LAMBDA email : email.folder \notin system_folders)))
    ELSE NameFromPattern(pattern)

suggest_folder_for_pattern(mails, pattern) ==
    IF mails = <<>> THEN "Uncategorized"
    ELSE IF MostCommon(analyze_email_distribution(mails)) \notin system_folders
    THEN MostCommon(analyze_email_distribution(mails))
    ELSE NameFromPattern(pattern)

(***************************************************************************)
(* SpecDetect: PatternDetector.detect_patterns on a mailbox that holds a   *)
(* backlog of mails from senders seen once, followed by the mails of a few *)
(* recurring senders.                                                      *)
(***************************************************************************)
MaxDetect == 3
BulkSize == 10

\* the k-th mail of the backlog: a sender and a domain of its own, no subject
BacklogEmail(k) ==
    [id |-> k, sender |-> "u@bulk" \o ToString(k) \o ".io", subject |-> "", body |-> "",
     folder |-> "INBOX"]

Backlog(n) == [k \in 1..n |-> BacklogEmail(k)]

DetectPool ==
    {[sender |-> "a@shop.de", subject |-> "Order shipped", body |-> "", folder |-> "INBOX"],
     [sender |-> "a@shop.de", subject |-> "", body |-> "", folder |-> "Archive"],
     [sender |-> "b@shop.de", subject |-> "to  reorder", body |-> "", folder |-> "Orders"]}

InitDetect ==
    /\ mode = "detect"
    /\ pc = "start"
    /\ cond_in = NoCond
    /\ cond_out = NotRun
    /\ categories = <<>>
    /\ ai_response = <<>>
    /\ gen_out = NotRun
    /\ rule_out = NotRun
    /\ rule_src = <<>>
    /\ sieve_filter = NoFilter
    /\ emails \in {Backlog(n) : n \in {0, BulkSize, 2 * BulkSize}}
    /\ test_out = NotRun
    /\ validation = NotRun
    /\ unmatched_out = NotRun
    /\ simulated = NotRun
    /\ detector \in {PatternDetector(f, c, m) : f \in {1, 2}, c \in {5, 10}, m \in {1, 5}}
    /\ detected = NotRun
    /\ objects = <<>>
    /\ last_call = NotRun
    /\ suggested = NotRun
    /\ grouped = NotRun
    /\ use_case = <<>>
    /\ ollama = <<>>

\* the fetch layer delivers one more Email; its id is fresh
Deliver ==
    /\ mode = "detect"
    /\ pc = "start"
    /\ Cardinality({i \in 1..Len(emails) : emails[i] # BacklogEmail(i)}) < MaxDetect
    /\ \E email \in DetectPool :
          emails' = Append(emails, [id |-> Len(emails) + 1, sender |-> email.sender,
                                    subject |-> email.subject, body |-> email.body,
                                    folder |-> email.folder])
    /\ UNCHANGED <<mode, pc, cond_in, cond_out, categories, ai_response, gen_out,
                   rule_out, rule_src, sieve_filter, test_out,
                   validation, unmatched_out, simulated, detector, detected,
                   objects, last_call, suggested, grouped, use_case, ollama>>

DetectPatterns ==
    /\ mode = "detect"
    /\ pc = "start"
    /\ \E result \in SortOutcomes({detect_patterns(emails, detector)}, emails) :
          detected' = Ok(result)
    /\ pc' = "done"
    /\ UNCHANGED <<mode, cond_in, cond_out, categories, ai_response, gen_out,
                   rule_out, rule_src, sieve_filter, emails, test_out,
                   validation, unmatched_out, simulated, detector,
                   objects, last_call, suggested, grouped, use_case, ollama>>

\* the caller asks for the emails of one of the detected patterns
GroupEmails ==
    /\ mode = "detect"
    /\ pc = "done"
    /\ \E k \in 1..Len(detected.val) :
          grouped' = [pattern |-> detected.val[k],
                      emails |-> group_emails_by_pattern(emails, detected.val[k])]
    /\ pc' = "grouped"
    /\ UNCHANGED <<mode, cond_in, cond_out, categories, ai_response, gen_out,
                   rule_out, rule_src, sieve_filter, emails, test_out,
                   validation, unmatched_out, simulated, detector, detected,
                   objects, last_call, suggested, use_case, ollama>>

\* and for a folder for them
SuggestFolder ==
    /\ mode = "detect"
    /\ pc = "grouped"
    /\ suggested' = Ok(suggest_folder_for_pattern(grouped.emails, grouped.pattern))
    /\ pc' = "suggested"
    /\ UNCHANGED <<mode, cond_in, cond_out, categories, ai_response, gen_out,
                   rule_out, rule_src, sieve_filter, emails, test_out,
                   validation, unmatched_out, simulated, detector, detected,
                   objects, last_call, grouped, use_case, ollama>>

NextDetect == Deliver \/ DetectPatterns \/ GroupEmails \/ SuggestFolder

SpecDetect == InitDetect /\ [][NextDetect]_vars

(***************************************************************************)
(* SieveFilter objects (entities/sieve_filter.py)                          *)
(*                                                                         *)
(* Python lists are objects: objects.heap is the sequence of the list      *)
(* objects, a SieveFilter object holds in rules the index of its list, and *)
(* objects.filters is the sequence of the SieveFilter objects.             *)
(* objects.caller is the list the caller holds.  datetime.now() returns    *)
(* objects.clock, which every call advances.  An operation returns the     *)
(* objects after it together with its outcome.                             *)
(***************************************************************************)
CallResult(objs, out) == [objs |-> objs, out |-> out]

\* the SieveFilter object f as the value the operations of the entity work on
View(objs, f) ==
    [name |-> objs.filters[f].name, description |-> objs.filters[f].description,
     rules |-> objs.heap[objs.filters[f].rules], enabled |-> objs.filters[f].enabled,
     priority |-> objs.filters[f].priority]

\* rules=rules or []: the list passed when it is not empty, a new list otherwise
RulesOrNew(objs, ref) == IF objs.heap[ref] = <<>> THEN Len(objs.heap) + 1 ELSE ref

\* SieveFilter.create(name, description, rules): rules is the list object ref;
\* created_at and updated_at are two calls of datetime.now()
create_on(objs, name, description, ref, enabled, priority) ==
    IF ~IsOk(SieveFilter_create(name, description, objs.heap[ref], enabled, priority))
    THEN CallResult(objs, SieveFilter_create(name, description, objs.heap[ref], enabled,
                                             priority))
    ELSE CallResult(
             [heap |-> IF objs.heap[ref] = <<>> THEN Append(objs.heap, <<>>) ELSE objs.heap,
              filters |-> Append(objs.filters,
                                 [name |-> name, description |-> description,
                                  rules |-> RulesOrNew(objs, ref), enabled |-> enabled,
                                  priority |-> priority, created_at |-> objs.clock,
                                  updated_at |-> objs.clock + 1]),
              clock |-> objs.clock + 2, caller |-> objs.caller],
             Ok(Len(objs.filters) + 1))

\* the object f after an operation left it as filter: self.rules is changed in
\* place, self.enabled assigned, and self.updated_at = datetime.now()
Mutated(objs, f, filter) ==
    [objs EXCEPT !.heap[objs.filters[f].rules] = filter.rules,
                 !.filters[f].enabled = filter.enabled,
                 !.filters[f].updated_at = objs.clock,
                 !.clock = @ + 1]

add_rule_on(objs, f, rule) ==
    CallResult(Mutated(objs, f, add_rule(View(objs, f), rule)), Ok(NoneV))

\* updated_at assigned before the removal is tried
remove_rule_on_StampFirst(objs, f, rule) ==
    IF IsOk(remove_rule(View(objs, f), rule))
    THEN CallResult(Mutated(objs, f, remove_rule(View(objs, f), rule).val), Ok(NoneV))
    ELSE CallResult(Mutated(objs, f, View(objs, f)), remove_rule(View(objs, f), rule))

\* self.rules.remove(rule) raises before self.updated_at is assigned
remove_rule_on(objs, f, rule) ==
    IF IsOk(remove_rule(View(objs, f), rule))
    THEN CallResult(Mutated(objs, f, remove_rule(View(objs, f), rule).val), Ok(NoneV))
    ELSE CallResult(objs, remove_rule(View(objs, f), rule))

enable_on(objs, f) == CallResult(Mutated(objs, f, enable(View(objs, f))), Ok(NoneV))

disable_on(objs, f) == CallResult(Mutated(objs, f, disable(View(objs, f))), Ok(NoneV))

(***************************************************************************)
(* SpecShared: a caller holds one list of rules, creates SieveFilters from *)
(* it and calls their operations.                                          *)
(***************************************************************************)
MaxFilters == 2
MaxClock == 6

SharedRules ==
    {Val(FilterRule_create(<<SubjectOrder>>, <<FileShop, Val(stop)>>, "anyof", "Orders", "")),
     Val(FilterRule_create(<<SubjectAlert>>, <<FileAlerts>>, "anyof", "Alerts", ""))}

Called(op, receiver, rule, before, out) ==
    [op |-> op, receiver |-> receiver, rule |-> rule, before |-> before, out |-> out]

InitShared ==
    /\ mode = "shared"
    /\ pc = "start"
    /\ cond_in = NoCond
    /\ cond_out = NotRun
    /\ categories = <<>>
    /\ ai_response = <<>>
    /\ gen_out = NotRun
    /\ rule_out = NotRun
    /\ rule_src = <<>>
    /\ sieve_filter = NoFilter
    /\ emails = <<>>
    /\ test_out = NotRun
    /\ validation = NotRun
    /\ unmatched_out = NotRun
    /\ simulated = NotRun
    /\ detector = <<>>
    /\ detected = NotRun
    /\ \E rules \in {<<>>} \cup {<<rule>> : rule \in SharedRules} :
          objects = [heap |-> <<rules>>, filters |-> <<>>, clock |-> 0, caller |-> 1]
    /\ last_call = NotRun
    /\ suggested = NotRun
    /\ grouped = NotRun
    /\ use_case = <<>>
    /\ ollama = <<>>

CreateFromList ==
    /\ mode = "shared"
    /\ Len(objects.filters) < MaxFilters
    /\ objects.clock < MaxClock
    /\ \E name \in EntityNames, enabled \in BOOLEAN :
          /\ objects' = create_on(objects, name, "", objects.caller, enabled, 0).objs
          /\ last_call' = Called("create", 0, NoneV, objects,
                                 create_on(objects, name, "", objects.caller, enabled, 0).out)
    /\ UNCHANGED <<mode, pc, cond_in, cond_out, categories, ai_response, gen_out,
                   rule_out, rule_src, sieve_filter, emails, test_out,
                   validation, unmatched_out, simulated, detector, detected,
                   suggested, grouped, use_case, ollama>>

CallAddRule ==
    /\ mode = "shared"
    /\ objects.clock < MaxClock
    /\ \E f \in 1..Len(objects.filters), rule \in SharedRules :
          /\ Len(View(objects, f).rules) < MaxRules
          /\ objects' = add_rule_on(objects, f, rule).objs
          /\ last_call' = Called("add_rule", f, rule, objects,
                                 add_rule_on(objects, f, rule).out)
    /\ UNCHANGED <<mode, pc, cond_in, cond_out, categories, ai_response, gen_out,
                   rule_out, rule_src, sieve_filter, emails, test_out,
                   validation, unmatched_out, simulated, detector, detected,
                   suggested, grouped, use_case, ollama>>

CallRemoveRule ==
    /\ mode = "shared"
    /\ objects.clock < MaxClock
    /\ \E f \in 1..Len(objects.filters), rule \in SharedRules :
          /\ objects' = remove_rule_on(objects, f, rule).objs
          /\ last_call' = Called("remove_rule", f, rule, objects,
                                 remove_rule_on(objects, f, rule).out)
    /\ UNCHANGED <<mode, pc, cond_in, cond_out, categories, ai_response, gen_out,
                   rule_out, rule_src, sieve_filter, emails, test_out,
                   validation, unmatched_out, simulated, detector, detected,
                   suggested, grouped, use_case, ollama>>

CallEnable ==
    /\ mode = "shared"
    /\ objects.clock < MaxClock
    /\ \E f \in 1..Len(objects.filters) :
          /\ objects' = enable_on(objects, f).objs
          /\ last_call' = Called("enable", f, NoneV, objects, enable_on(objects, f).out)
    /\ UNCHANGED <<mode, pc, cond_in, cond_out, categories, ai_response, gen_out,
                   rule_out, rule_src, sieve_filter, emails, test_out,
                   validation, unmatched_out, simulated, detector, detected,
                   suggested, grouped, use_case, ollama>>

CallDisable ==
    /\ mode = "shared"
    /\ objects.clock < MaxClock
    /\ \E f \in 1..Len(objects.filters) :
          /\ objects' = disable_on(objects, f).objs
          /\ last_call' = Called("disable", f, NoneV, objects, disable_on(objects, f).out)
    /\ UNCHANGED <<mode, pc, cond_in, cond_out, categories, ai_response, gen_out,
                   rule_out, rule_src, sieve_filter, emails, test_out,
                   validation, unmatched_out, simulated, detector, detected,
                   suggested, grouped, use_case, ollama>>

NextShared == CreateFromList \/ CallAddRule \/ CallRemoveRule \/ CallEnable \/ CallDisable

SpecShared == InitShared /\ [][NextShared]_vars

(***************************************************************************)
(* AnalyzeEmailsUseCase.execute (application/use_cases/                    *)
(* analyze_emails_use_case.py)                                             *)
(*                                                                         *)
(* use_case is the activation of one call of execute: analysis_mode and    *)
(* has_output_file are fixed by the constructor and the request, pc is the *)
(* statement the call is at, calls the port calls made so far, folders the *)
(* folders still to count, ai_response the response of the analysis and    *)
(* pending what the try block left with.  A port call returns or raises;   *)
(* which of them is the environment's choice.                              *)
(***************************************************************************)
PortFailure(call) == Raise("Exception", call \o " failed")

\* the statement outside of a try block: what it raises leaves execute at once
Proceed_NoFinally(uc, call, out, next) ==
    IF IsOk(out)
    THEN [uc EXCEPT !.calls = Append(@, call), !.pc = next]
    ELSE [uc EXCEPT !.calls = Append(@, call), !.pc = "raised", !.pending = out]

\* a statement of the try block: the call is made; the next statement follows
\* when it returns, the finally clause when it raises
Proceed(uc, call, out, next) ==
    IF IsOk(out)
    THEN [uc EXCEPT !.calls = Append(@, call), !.pc = next]
    ELSE [uc EXCEPT !.calls = Append(@, call), !.pc = "finally", !.pending = out]

\* a statement of _fetch_folder_structure: what it raises is logged and dropped
Swallow(uc, call, next) == [uc EXCEPT !.calls = Append(@, call), !.pc = next]

\* lines 131-184: the port calls of the analysis, by mode
AnalysisSteps(analysis_mode) ==
    CASE analysis_mode = "embedding" -> <<"encode_emails", "cluster_emails", "analyze_clusters">>
      [] analysis_mode = "hierarchical" -> <<"summarize_batch", "analyze_summaries">>
      [] OTHER -> <<"analyze_emails">>

\* the statement after the analysis step at pc
AfterAnalysis(analysis_mode, step) ==
    IF step = AnalysisSteps(analysis_mode)[Len(AnalysisSteps(analysis_mode))]
    THEN "generate_filter"
    ELSE AnalysisSteps(analysis_mode)[
             1 + CHOOSE k \in 1..Len(AnalysisSteps(analysis_mode)) :
                     AnalysisSteps(analysis_mode)[k] = step]

(***************************************************************************)
(* SpecUseCase: one call of execute against ports that may fail.           *)
(***************************************************************************)
MaxFolders == 2

\* what the master model may answer
ResponsePool ==
    {[categories |-> <<Dict(GoodSecurity)>>],
     [categories |-> <<Dict(Without(GoodShopping, "patterns"))>>],
     [error |-> Str("no json")]}

Outcomes(call) == {Ok(NoneV), PortFailure(call)}

InitUseCase ==
    /\ mode = "usecase"
    /\ pc = "start"
    /\ cond_in = NoCond
    /\ cond_out = NotRun
    /\ categories = <<>>
    /\ ai_response = <<>>
    /\ gen_out = NotRun
    /\ rule_out = NotRun
    /\ rule_src = <<>>
    /\ sieve_filter = NoFilter
    /\ emails = <<>>
    /\ test_out = NotRun
    /\ validation = NotRun
    /\ unmatched_out = NotRun
    /\ simulated = NotRun
    /\ detector = <<>>
    /\ detected = NotRun
    /\ objects = <<>>
    /\ last_call = NotRun
    /\ suggested = NotRun
    /\ grouped = NotRun
    /\ \E analysis_mode \in {"embedding", "hierarchical", "simple"},
          has_output_file \in BOOLEAN :
          use_case = [analysis_mode |-> analysis_mode, has_output_file |-> has_output_file,
                      pc |-> "connect", calls |-> <<>>, folders |-> 0,
                      ai_response |-> <<>>, pending |-> NotRun]
    /\ ollama = <<>>

\* line 109: connect() is called before the try block
Connect ==
    /\ mode = "usecase"
    /\ use_case.pc = "connect"
    /\ \E out \in Outcomes("connect") :
          use_case' = IF IsOk(out)
                      THEN [use_case EXCEPT !.calls = Append(@, "connect"),
                                            !.pc = "list_folders"]
                      ELSE [use_case EXCEPT !.calls = Append(@, "connect"),
                                            !.pc = "raised", !.pending = out]
    /\ UNCHANGED <<mode, pc, cond_in, cond_out, categories, ai_response, gen_out,
                   rule_out, rule_src, sieve_filter, emails, test_out,
                   validation, unmatched_out, simulated, detector, detected,
                   objects, last_call, suggested, grouped, ollama>>

\* lines 231-233 and 244-245
ListFolders ==
    /\ mode = "usecase"
    /\ use_case.pc = "list_folders"
    /\ \E n \in 0..MaxFolders, out \in Outcomes("list_folders") :
          use_case' = IF IsOk(out) /\ n > 0
                      THEN [Swallow(use_case, "list_folders", "get_folder_count")
                                EXCEPT !.folders = n]
                      ELSE Swallow(use_case, "list_folders", "fetch_emails")
    /\ UNCHANGED <<mode, pc, cond_in, cond_out, categories, ai_response, gen_out,
                   rule_out, rule_src, sieve_filter, emails, test_out,
                   validation, unmatched_out, simulated, detector, detected,
                   objects, last_call, suggested, grouped, ollama>>

\* lines 236-242: one turn of the loop over the folders
GetFolderCount ==
    /\ mode = "usecase"
    /\ use_case.pc = "get_folder_count"
    /\ use_case' = [Swallow(use_case, "get_folder_count",
                            IF use_case.folders = 1 THEN "fetch_emails"
                            ELSE "get_folder_count")
                        EXCEPT !.folders = @ - 1]
    /\ UNCHANGED <<mode, pc, cond_in, cond_out, categories, ai_response, gen_out,
                   rule_out, rule_src, sieve_filter, emails, test_out,
                   validation, unmatched_out, simulated, detector, detected,
                   objects, last_call, suggested, grouped, ollama>>

\* lines 118-128: no emails is a ValueError raised inside the try block
FetchEmails ==
    /\ mode = "usecase"
    /\ use_case.pc = "fetch_emails"
    /\ \E out \in Outcomes("fetch_emails")
                      \cup {Raise("ValueError", "No emails found to analyze")} :
          use_case' = Proceed(use_case, "fetch_emails", out,
                              AnalysisSteps(use_case.analysis_mode)[1])
    /\ UNCHANGED <<mode, pc, cond_in, cond_out, categories, ai_response, gen_out,
                   rule_out, rule_src, sieve_filter, emails, test_out,
                   validation, unmatched_out, simulated, detector, detected,
                   objects, last_call, suggested, grouped, ollama>>

\* lines 131-184: one port call of the analysis; the last one yields ai_response
Analyze ==
    /\ mode = "usecase"
    /\ \E k \in 1..Len(AnalysisSteps(use_case.analysis_mode)) :
          use_case.pc = AnalysisSteps(use_case.analysis_mode)[k]
    /\ \E out \in Outcomes(use_case.pc), response \in ResponsePool :
          use_case' =
              [Proceed(use_case, use_case.pc, out,
                       AfterAnalysis(use_case.analysis_mode, use_case.pc))
                  EXCEPT !.ai_response =
                      IF /\ IsOk(out)
                         /\ AfterAnalysis(use_case.analysis_mode, use_case.pc)
                                = "generate_filter"
                      THEN response ELSE @]
    /\ UNCHANGED <<mode, pc, cond_in, cond_out, categories, ai_response, gen_out,
                   rule_out, rule_src, sieve_filter, emails, test_out,
                   validation, unmatched_out, simulated, detector, detected,
                   objects, last_call, suggested, grouped, ollama>>

\* lines 190-200: generate_filter_from_raw_response(ai_response); the request
\* has an output_file or the return statement follows
GenerateFilter ==
    /\ mode = "usecase"
    /\ use_case.pc = "generate_filter"
    /\ use_case' =
          [Proceed(use_case, "generate_filter",
                   generate_filter_from_raw_response(use_case.ai_response),
                   IF use_case.has_output_file THEN "save" ELSE "finally")
              EXCEPT !.pending =
                  IF IsOk(generate_filter_from_raw_response(use_case.ai_response))
                  THEN Ok(NoneV)
                  ELSE generate_filter_from_raw_response(use_case.ai_response)]
    /\ UNCHANGED <<mode, pc, cond_in, cond_out, categories, ai_response, gen_out,
                   rule_out, rule_src, sieve_filter, emails, test_out,
                   validation, unmatched_out, simulated, detector, detected,
                   objects, last_call, suggested, grouped, ollama>>

\* lines 201-215: filter_repository.save, then the return statement
SaveFilter ==
    /\ mode = "usecase"
    /\ use_case.pc = "save"
    /\ \E out \in Outcomes("save") :
          use_case' = Proceed(use_case, "save", out, "finally")
    /\ UNCHANGED <<mode, pc, cond_in, cond_out, categories, ai_response, gen_out,
                   rule_out, rule_src, sieve_filter, emails, test_out,
                   validation, unmatched_out, simulated, detector, detected,
                   objects, last_call, suggested, grouped, ollama>>

\* lines 217-221: the finally clause; what disconnect() raises replaces what
\* the try block left with
Disconnect ==
    /\ mode = "usecase"
    /\ use_case.pc = "finally"
    /\ \E out \in Outcomes("disconnect") :
          use_case' = [use_case EXCEPT
                          !.calls = Append(@, "disconnect"),
                          !.pending = IF IsOk(out) THEN @ ELSE out,
                          !.pc = IF IsOk(out) /\ IsOk(use_case.pending)
                                 THEN "returned" ELSE "raised"]
    /\ UNCHANGED <<mode, pc, cond_in, cond_out, categories, ai_response, gen_out,
                   rule_out, rule_src, sieve_filter, emails, test_out,
                   validation, unmatched_out, simulated, detector, detected,
                   objects, last_call, suggested, grouped, ollama>>

NextUseCase ==
    \/ Connect
    \/ ListFolders
    \/ GetFolderCount
    \/ FetchEmails
    \/ Analyze
    \/ GenerateFilter
    \/ SaveFilter
    \/ Disconnect

SpecUseCase == InitUseCase /\ [][NextUseCase]_vars

(***************************************************************************)
(* OllamaAdapter._call_ollama (infrastructure/adapters/ollama_adapter.py)  *)
(*                                                                         *)
(* ollama is the activation of one call: max_retries and base_delay are    *)
(* its arguments, attempt the loop variable, pc the statement it is at,    *)
(* events the requests made and the waits taken so far, last_exception the *)
(* local of that name and out what the call returned or raised.            *)
(***************************************************************************)
\* last_exception: Exception | None = None
NoException == [exc |-> "none"]

\* the exceptions the except clause of line 285 names
Retried == {"RequestException", "OSError", "TimeoutError"}

\* base_delay * (2**attempt)
Delay(base_delay, attempt) == base_delay * 2 ^ attempt

Posted(out) == [call |-> "post", out |-> out]

Slept(delay) == [call |-> "sleep", delay |-> delay]

\* the wait of line 293 taken after every failure
AfterFailure_AlwaysSleep(o, e) ==
    [o EXCEPT !.events = Append(@, Posted(e)), !.last_exception = e, !.pc = "sleep"]

\* lines 285-295: the except clause; after the failure of the last attempt
\* the loop is over
AfterFailure(o, e) ==
    [o EXCEPT !.events = Append(@, Posted(e)),
              !.last_exception = e,
              !.pc = IF o.attempt < o.max_retries THEN "sleep" ELSE "raise"]

\* lines 266-283 and what the try statement does with the outcome of the
\* request: a response is returned, a failure the except clause names is
\* handled, any other exception leaves the call
AfterPost(o, out) ==
    IF IsOk(out)
    THEN [o EXCEPT !.events = Append(@, Posted(out)), !.pc = "returned", !.out = out]
    ELSE IF out.exc \in Retried THEN AfterFailure(o, out)
    ELSE [o EXCEPT !.events = Append(@, Posted(out)), !.pc = "raised", !.out = out]

\* for attempt in range(max_retries + 1): the next turn, or the end of the loop
NextAttempt(o) ==
    [o EXCEPT !.attempt = @ + 1,
              !.pc = IF o.attempt + 1 < o.max_retries + 1 THEN "post" ELSE "raise"]

(***************************************************************************)
(* SpecOllama: one call of _call_ollama against a server that answers,     *)
(* fails or times out.                                                     *)
(***************************************************************************)
MaxRetries == 3

\* what one request may end with: a response text, a failure the loop retries
\* (the message tells the attempts apart), or a body that is no JSON object
RequestOutcomes(attempt) ==
    {Ok(""), Ok("{}")}
        \cup {Raise(e, "attempt " \o ToString(attempt)) : e \in Retried}
        \cup {Raise("AttributeError", "'list' object has no attribute 'get'")}

InitOllama ==
    /\ mode = "ollama"
    /\ pc = "start"
    /\ cond_in = NoCond
    /\ cond_out = NotRun
    /\ categories = <<>>
    /\ ai_response = <<>>
    /\ gen_out = NotRun
    /\ rule_out = NotRun
    /\ rule_src = <<>>
    /\ sieve_filter = NoFilter
    /\ emails = <<>>
    /\ test_out = NotRun
    /\ validation = NotRun
    /\ unmatched_out = NotRun
    /\ simulated = NotRun
    /\ detector = <<>>
    /\ detected = NotRun
    /\ objects = <<>>
    /\ last_call = NotRun
    /\ suggested = NotRun
    /\ grouped = NotRun
    /\ use_case = <<>>
    /\ \E max_retries \in (0 - 1)..MaxRetries, base_delay \in {1, 2} :
          ollama = [max_retries |-> max_retries, base_delay |-> base_delay,
                    attempt |-> 0, events |-> <<>>, last_exception |-> NoException,
                    pc |-> IF 0 < max_retries + 1 THEN "post" ELSE "raise",
                    out |-> NotRun]

\* lines 266-295: one request
Post ==
    /\ mode = "ollama"
    /\ ollama.pc = "post"
    /\ \E out \in RequestOutcomes(ollama.attempt) :
          ollama' = AfterPost(ollama, out)
    /\ UNCHANGED <<mode, pc, cond_in, cond_out, categories, ai_response, gen_out,
                   rule_out, rule_src, sieve_filter, emails, test_out,
                   validation, unmatched_out, simulated, detector, detected,
                   objects, last_call, suggested, grouped, use_case>>

\* line 293: time.sleep(delay), then the next turn of the loop
Sleep ==
    /\ mode = "ollama"
    /\ ollama.pc = "sleep"
    /\ ollama' = NextAttempt([ollama EXCEPT !.events =
                                 Append(@, Slept(Delay(ollama.base_delay, ollama.attempt)))])
    /\ UNCHANGED <<mode, pc, cond_in, cond_out, categories, ai_response, gen_out,
                   rule_out, rule_src, sieve_filter, emails, test_out,
                   validation, unmatched_out, simulated, detector, detected,
                   objects, last_call, suggested, grouped, use_case>>

\* line 297: raise last_exception or RuntimeError("Ollama request failed")
RaiseLast ==
    /\ mode = "ollama"
    /\ ollama.pc = "raise"
    /\ ollama' = [ollama EXCEPT
                     !.pc = "raised",
                     !.out = IF ollama.last_exception = NoException
                             THEN Raise("RuntimeError", "Ollama request failed")
                             ELSE ollama.last_exception]
    /\ UNCHANGED <<mode, pc, cond_in, cond_out, categories, ai_response, gen_out,
                   rule_out, rule_src, sieve_filter, emails, test_out,
                   validation, unmatched_out, simulated, detector, detected,
                   objects, last_call, suggested, grouped, use_case>>

NextOllama == Post \/ Sleep \/ RaiseLast

SpecOllama == InitOllama /\ [][NextOllama]_vars

\* a request ends within its timeout of 600 seconds and a sleep within its
\* delay, so the call always takes its next step
FairOllama == SpecOllama /\ WF_vars(NextOllama)

(***************************************************************************)
(* Claims                                                                  *)
(***************************************************************************)

(* What the claims speak of, stated on the caller's input.                 *)

\* the category at a position of the input: <<i>> is categories[i], <<i, j>> its
\* j-th subcategory
ClaimAt(at) ==
    IF Len(at) = 1 THEN categories[at[1]]
    ELSE SubcategoriesOf(categories[at[1]])[at[2]]

ClaimConfident(cat) == ValOf(cat.confidence) >= min_confidence

\* the pattern string parses into at least one valid condition
ClaimParses(pattern) ==
    LET parsed == from_pattern_multi(pattern)
    IN  IsOk(parsed) /\ parsed.val # <<>>

ClaimPatterns(cat) == [i \in 1..Len(ValOf(cat.patterns)) |-> ValOf(ValOf(cat.patterns)[i])]

ClaimYields(cat) == \E i \in 1..Len(ClaimPatterns(cat)) : ClaimParses(ClaimPatterns(cat)[i])

\* the positions of the categories the generator builds rules from: the top-level
\* categories that pass the confidence filter and their subcategories that pass it
ClaimProcessed ==
    LET top == {i \in 1..Len(categories) : ClaimConfident(categories[i])}
        subs(i) == {j \in 1..Len(SubcategoriesOf(categories[i])) :
                       ClaimConfident(SubcategoriesOf(categories[i])[j])}
    IN  {<<i>> : i \in top} \cup UNION {{<<i, j>> : j \in subs(i)} : i \in top}

ClaimGroups ==
    <<security_keywords, finance_keywords, work_keywords, shopping_keywords,
      social_keywords, promo_keywords>>

\* the priority bucket: 10 * (g - 1) for the first keyword group g with a keyword
\* in the lower-cased name and description, 60 when there is none
ClaimBucket(cat) ==
    LET text == Lower(ValOf(cat.name)) \o " " \o Lower(ValOf(cat.description))
        hits == {g \in 1..Len(ClaimGroups) :
                    \E k \in 1..Len(ClaimGroups[g]) : Contains(text, ClaimGroups[g][k])}
    IN  IF hits = {} THEN 60
        ELSE 10 * ((CHOOSE g \in hits : \A h \in hits : g <= h) - 1)

GenDone == mode = "gen" /\ pc = "done"

\* C1: generate_filter_from_categories fails with an input-rejection error, and
\* returns no filter, when the category list is empty and when every category of
\* the list has confidence below min_confidence.
C1_InputRejection ==
    (GenDone /\ \A i \in 1..Len(categories) : ~ClaimConfident(categories[i])) =>
        /\ gen_out.exc = "ValueError"
        /\ gen_out.msg \in {"No categories provided for filter generation",
                            "No categories meet minimum confidence threshold"}

\* a non-empty list of categories, all below the threshold, was rejected
C1_Witness ==
    /\ GenDone
    /\ Len(categories) >= 2
    /\ \A i \in 1..Len(categories) :
          ~ClaimConfident(categories[i]) /\ ClaimYields(categories[i])
    /\ gen_out = Raise("ValueError", "No categories meet minimum confidence threshold")

\* C2: when a category passes the confidence filter but no category or subcategory
\* the generator processes yields a rule, the call fails with the empty-result
\* error; hence every filter the call returns has at least one rule.
C2_EmptyResult ==
    GenDone =>
        /\ (/\ \E i \in 1..Len(categories) : ClaimConfident(categories[i])
            /\ \A at \in ClaimProcessed : ~ClaimYields(ClaimAt(at)))
              => gen_out = Raise("ValueError",
                                 "Failed to generate any valid rules from categories")
        /\ IsOk(gen_out) => Len(gen_out.val.rules) >= 1

\* confident categories with patterns, none of which parses, gave the
\* empty-result error
C2_Witness ==
    /\ GenDone
    /\ gen_out = Raise("ValueError", "Failed to generate any valid rules from categories")
    /\ \E at \in ClaimProcessed : ClaimPatterns(ClaimAt(at)) # <<>>

\* C3: the rules built from top-level categories are ordered by priority bucket,
\* non-decreasing, and categories of the same bucket keep their input order.
C3_PriorityOrder ==
    (GenDone /\ IsOk(gen_out)) =>
        \A i, j \in 1..Len(rule_src) :
            (i < j /\ Len(rule_src[i]) = 1 /\ Len(rule_src[j]) = 1) =>
                LET first == ClaimBucket(ClaimAt(rule_src[i]))
                    second == ClaimBucket(ClaimAt(rule_src[j]))
                IN  \/ first < second
                    \/ first = second /\ rule_src[i][1] < rule_src[j][1]

\* a Shopping category came before a Security category in the input, and the
\* Security rule comes before the Shopping rule
C3_Witness ==
    /\ GenDone
    /\ IsOk(gen_out)
    /\ \E i, j \in 1..Len(rule_src) :
          /\ i < j
          /\ Len(rule_src[i]) = 1 /\ Len(rule_src[j]) = 1
          /\ rule_src[i][1] > rule_src[j][1]
          /\ gen_out.val.rules[i].name = "Security"
          /\ gen_out.val.rules[j].name = "Shopping"

MatchDone == mode = "match" /\ pc = "done"

\* the ids of the emails of the recorded match results, in order
ClaimRecorded ==
    [k \in 1..Len(test_out.val.match_results) |->
        <<test_out.val.match_results[k].email.id, test_out.val.match_results[k].rule>>]

\* C4: on a filter returned by generate_filter_from_categories, test_filter
\* returns a result in which no email appears in more than one match result.
C4_AtMostOneRulePerEmail ==
    (MatchDone /\ categories # <<>>) =>
        /\ IsOk(test_out)
        /\ \A k, l \in 1..Len(ClaimRecorded) :
              ClaimRecorded[k][1] = ClaimRecorded[l][1] => k = l

ClaimEnabled(rule) == ~HasAttr(rule, "enabled") \/ rule["enabled"]

ClaimRuleHolds(rule, email) ==
    IF rule.logical_operator = "allof"
    THEN \A i \in 1..Len(rule.conditions) : test_condition(rule.conditions[i], email)
    ELSE \E i \in 1..Len(rule.conditions) : test_condition(rule.conditions[i], email)

ClaimHasStop(rule) == \E i \in 1..Len(rule.actions) : rule.actions[i].action_type = "stop"

RECURSIVE ClaimMatchesOf(_, _)
\* the rules recorded for one email: the enabled rules that hold, in filter
\* order, up to and including the first one with a stop action
ClaimMatchesOf(rules, email) ==
    IF rules = <<>> THEN <<>>
    ELSE IF ClaimEnabled(Head(rules)) /\ ClaimRuleHolds(Head(rules), email)
    THEN IF ClaimHasStop(Head(rules)) THEN <<<<email.id, Head(rules)>>>>
         ELSE <<<<email.id, Head(rules)>>>> \o ClaimMatchesOf(Tail(rules), email)
    ELSE ClaimMatchesOf(Tail(rules), email)

RECURSIVE ClaimAllMatches(_, _)
ClaimAllMatches(rules, mails) ==
    IF mails = <<>> THEN <<>>
    ELSE ClaimMatchesOf(rules, Head(mails)) \o ClaimAllMatches(rules, Tail(mails))

\* C5: on any filter, test_filter returns a result whose match results are, for
\* each email in turn, the enabled rules whose conditions hold under the rule's
\* combining mode, in filter order, up to and including the first one that has
\* a stop action.
C5_MatchSemantics ==
    MatchDone =>
        /\ IsOk(test_out)
        /\ ClaimRecorded = ClaimAllMatches(sieve_filter.rules, emails)

\* C6: every rule of a returned filter has exactly two actions: file-into with
\* the suggested folder of the category the rule was built from, then stop.
C6_FileIntoThenStop ==
    (GenDone /\ IsOk(gen_out)) =>
        \A k \in 1..Len(gen_out.val.rules) :
            gen_out.val.rules[k].actions =
                <<[action_type |-> "fileinto",
                   parameter |-> ClaimAt(rule_src[k]).suggested_folder],
                  [action_type |-> "stop", parameter |-> NoneV]>>

\* a returned filter with a rule of a top-level category and a rule of a
\* subcategory whose suggested folder is not its name
C6_Witness ==
    /\ GenDone
    /\ IsOk(gen_out)
    /\ \E k, l \in 1..Len(rule_src) :
          /\ Len(rule_src[k]) = 1
          /\ Len(rule_src[l]) = 2
          /\ ClaimAt(rule_src[l]).suggested_folder # ClaimAt(rule_src[l]).name
          /\ Len(gen_out.val.rules[l].actions) = 2

RuleDone == mode = "rule" /\ pc = "done"

RECURSIVE ClaimConditions(_)
\* the conditions of the patterns that parse, in pattern order
ClaimConditions(patterns) ==
    IF patterns = <<>> THEN <<>>
    ELSE (IF ClaimParses(Head(patterns)) THEN from_pattern_multi(Head(patterns)).val
          ELSE <<>>) \o ClaimConditions(Tail(patterns))

\* C7: a pattern that does not parse is skipped without failing; the category
\* yields a rule if and only if one of its patterns parses, and the rule's
\* conditions are the conditions of the parseable patterns, in pattern order.
C7_SkipUnparseable ==
    RuleDone =>
        /\ IsOk(rule_out)
        /\ ClaimYields(categories[1]) <=> TypeOf(rule_out.val) = "rule"
        /\ TypeOf(rule_out.val) = "rule" =>
              ValOf(rule_out.val).conditions = ClaimConditions(ClaimPatterns(categories[1]))

RawDone == mode = "raw" /\ pc = "done"

ClaimIsStrList(x) ==
    TypeOf(x) = "list" /\ \A i \in 1..Len(ValOf(x)) : TypeOf(ValOf(x)[i]) = "str"

ClaimTyped(d, key, type) == key \in DOMAIN d => TypeOf(d[key]) = type

RECURSIVE ClaimWellFormed(_)
\* an entry of the categories array with the keys name, patterns and
\* suggested_folder and with every field of its type
ClaimWellFormed(entry) ==
    /\ TypeOf(entry) = "dict"
    /\ {"name", "patterns", "suggested_folder"} \subseteq DOMAIN ValOf(entry)
    /\ ClaimTyped(ValOf(entry), "name", "str")
    /\ ClaimTyped(ValOf(entry), "description", "str")
    /\ ClaimTyped(ValOf(entry), "suggested_folder", "str")
    /\ ClaimTyped(ValOf(entry), "confidence", "num")
    /\ ClaimIsStrList(ValOf(entry)["patterns"])
    /\ "subcategories" \in DOMAIN ValOf(entry) =>
          /\ TypeOf(ValOf(entry)["subcategories"]) = "list"
          /\ \A i \in 1..Len(ValOf(ValOf(entry)["subcategories"])) :
                ClaimWellFormed(ValOf(ValOf(entry)["subcategories"])[i])

\* C8: a malformed entry of the categories array is skipped on its own: the call
\* ends as it ends on the well-formed entries alone, with their rules and no other.
C8_MalformedEntriesSkipped ==
    (RawDone /\ "categories" \in DOMAIN ai_response) =>
        LET alone == generate_filter_from_raw_response(
                         [categories |-> SelectSeq(ai_response["categories"],
                                                   ClaimWellFormed)])
        IN  gen_out = IF IsOk(alone) THEN Ok(alone.val.filter) ELSE alone

\* C9, soundness: a rule of a subcategory is the rule of a subcategory with
\* confidence >= min_confidence of a top-level category that passed the filter.
ClaimSubRulesConfident ==
    \A k \in 1..Len(rule_src) : rule_src[k] \in ClaimProcessed

\* C9, grouping: the rules of one top-level category and of its subcategories
\* are contiguous, the category's own rule first.
ClaimFamiliesContiguous ==
    \A a, b, c \in 1..Len(rule_src) :
        /\ (a < b /\ b < c /\ rule_src[a][1] = rule_src[c][1])
              => rule_src[b][1] = rule_src[a][1]
        /\ (a < b /\ rule_src[a][1] = rule_src[b][1]) => Len(rule_src[b]) = 2

\* C9, order: the rules of the subcategories of one category are ordered by
\* priority bucket, and by position within a bucket.
ClaimSubRulesOrdered ==
    \A a, b \in 1..Len(rule_src) :
        (a < b /\ Len(rule_src[a]) = 2 /\ rule_src[a][1] = rule_src[b][1]) =>
            LET first == ClaimBucket(ClaimAt(rule_src[a]))
                second == ClaimBucket(ClaimAt(rule_src[b]))
            IN  \/ first < second
                \/ first = second /\ rule_src[a][2] < rule_src[b][2]

\* C9, completeness: every processed subcategory with a pattern that parses has
\* its rule, whether or not its parent has one.
ClaimSubRulesProduced ==
    \A at \in ClaimProcessed :
        (Len(at) = 2 /\ ClaimYields(ClaimAt(at))) =>
            \E k \in 1..Len(rule_src) : rule_src[k] = at

\* C9: in the returned rule list the rules of a category's subcategories with
\* confidence >= min_confidence, ordered by priority bucket, come directly after
\* the parent's own rule and before the rule of the next top-level category; they
\* are there also when the parent has no patterns and no rule of its own.
C9_SubcategoriesFollowParent ==
    (GenDone /\ IsOk(gen_out)) =>
        /\ Len(rule_src) = Len(gen_out.val.rules)
        /\ ClaimSubRulesConfident
        /\ ClaimFamiliesContiguous
        /\ ClaimSubRulesOrdered
        /\ ClaimSubRulesProduced

\* a parent without patterns has no rule, its subcategory has one, and the rule
\* of the next top-level category follows it
C9_Witness ==
    /\ GenDone
    /\ IsOk(gen_out)
    /\ \E k \in 1..Len(rule_src) :
          /\ Len(rule_src[k]) = 2
          /\ ClaimPatterns(categories[rule_src[k][1]]) = <<>>
          /\ \A l \in 1..Len(rule_src) : rule_src[l] # <<rule_src[k][1]>>
          /\ k < Len(rule_src)
          /\ Len(rule_src[k + 1]) = 1

DomainDone == mode = "domain" /\ pc = "done"

\* C11: is_valid_domain is false for every domain of the placeholder set and of
\* the generic set in any letter case, for the empty string and for every domain
\* without a dot; it is true for github.com and amazon.de.
C11_DomainValidation ==
    DomainDone =>
        /\ (\/ cond_in.base \in INVALID_DOMAINS \cup GENERIC_DOMAINS
            \/ cond_in.domain = ""
            \/ \A i \in 1..Len(cond_in.domain) : CharAt(cond_in.domain, i) # ".")
              => cond_out = Ok(FALSE)
        /\ cond_in.base \in {"github.com", "amazon.de"} => cond_out = Ok(TRUE)

\* a placeholder domain written with upper-case letters was rejected
C11_Witness ==
    /\ DomainDone
    /\ cond_in.base \in INVALID_DOMAINS
    /\ cond_in.domain # cond_in.base
    /\ Contains(cond_in.domain, ".")
    /\ cond_out = Ok(FALSE)

MultiDone == mode = "multi" /\ pc = "done"

\* one header-contains condition on "subject" per non-empty trimmed keyword
ClaimKeywordConditions(keywords) ==
    LET trimmed == SelectSeq([i \in 1..Len(keywords) |-> Strip(keywords[i])],
                             LAMBDA kw : kw # "")
    IN  [i \in 1..Len(trimmed) |->
            [condition_type |-> "header_contains", field |-> "subject",
             match_type |-> ":contains", value |-> trimmed[i]]]

\* the conditions a call produced: none when it raised
ClaimProduced(out) == IF IsOk(out) THEN out.val ELSE <<>>

\* C12: subject:W1,...,Wn expands into one header-contains condition on "subject"
\* per non-empty trimmed keyword, in keyword order, no value containing a comma;
\* the rule built from the pattern has these conditions and combines them
\* with anyof, whether it has one condition or several.
C12_CommaKeywords ==
    MultiDone =>
        /\ ClaimProduced(cond_out) = ClaimKeywordConditions(cond_in.keywords)
        /\ \A i \in 1..Len(ClaimProduced(cond_out)) :
              \A k \in 1..Len(ClaimProduced(cond_out)[i].value) :
                  CharAt(ClaimProduced(cond_out)[i].value, k) # ","
        /\ IsOk(rule_out)
        /\ ClaimKeywordConditions(cond_in.keywords) # <<>> =>
              /\ TypeOf(rule_out.val) = "rule"
              /\ ValOf(rule_out.val).conditions = ClaimKeywordConditions(cond_in.keywords)
              /\ ValOf(rule_out.val).logical_operator = "anyof"

\* "subject:order,bestellt" gave exactly the conditions "order" and "bestellt",
\* and the rule is an anyof rule
C12_Witness ==
    /\ MultiDone
    /\ cond_in.pattern = "subject:order,bestellt"
    /\ IsOk(cond_out)
    /\ Len(cond_out.val) = 2
    /\ cond_out.val[1].value = "order"
    /\ cond_out.val[2].value = "bestellt"
    /\ ValOf(rule_out.val).logical_operator = "anyof"

ValidateDone == mode = "validate" /\ pc = "done"

\* the folder a rule files into: the parameter of its first fileinto action
ClaimTargets(rule) ==
    {ValOf(rule.actions[i].parameter) :
        i \in {j \in 1..Len(rule.actions) :
                  /\ rule.actions[j].action_type = "fileinto"
                  /\ \A k \in 1..(j - 1) : rule.actions[k].action_type # "fileinto"}}

\* the folders under which a domain appears in an address-domain condition
ClaimFoldersOf(rules, domain) ==
    UNION {ClaimTargets(rules[i]) :
              i \in {j \in 1..Len(rules) :
                        \E c \in 1..Len(rules[j].conditions) :
                           /\ rules[j].conditions[c].condition_type = "address_domain"
                           /\ Lower(rules[j].conditions[c].value) = domain}}

ClaimSharedDomains(rules) ==
    {domain \in UNION {{Lower(rules[i].conditions[c].value) :
                            c \in 1..Len(rules[i].conditions)} : i \in 1..Len(rules)} :
        Cardinality(ClaimFoldersOf(rules, domain)) > 1}

ClaimCrossRuleWarnings ==
    {k \in 1..Len(validation.val) : validation.val[k].rule_name = "Multiple Rules"}

\* C13: validate_filter returns one cross-rule warning per domain that appears
\* under more than one target folder (exactly one for two rules with the same
\* address-domain and different fileinto folders), and the warning names the
\* domain and each of its folders.
C13_OneWarningPerSharedDomain ==
    ValidateDone =>
        /\ Cardinality(ClaimCrossRuleWarnings)
              = Cardinality(ClaimSharedDomains(sieve_filter.rules))
        /\ \A domain \in ClaimSharedDomains(sieve_filter.rules) :
              \E k \in ClaimCrossRuleWarnings :
                 /\ validation.val[k].severity = "warning"
                 /\ Contains(validation.val[k].message, "'" \o domain \o "'")
                 /\ \A folder \in ClaimFoldersOf(sieve_filter.rules, domain) :
                       Contains(validation.val[k].message, folder)

UnmatchedDone == MatchDone /\ unmatched_out # NotRun

\* the emails of the collection that appear in no match result, in collection order
ClaimNotRecorded ==
    SelectSeq(emails,
              LAMBDA email : \A k \in 1..Len(test_out.val.match_results) :
                                test_out.val.match_results[k].email.id # email.id)

\* C14: find_unmatched_emails(filter, emails) returns exactly the emails that
\* appear in no match result of test_filter(filter, emails), in the order of
\* the collection.
C14_UnmatchedComplement ==
    UnmatchedDone =>
        /\ IsOk(test_out)
        /\ IsOk(unmatched_out)
        /\ unmatched_out.val = ClaimNotRecorded

SimulateDone == MatchDone /\ simulated # NotRun

\* the folders of the fileinto actions of a list of actions
ClaimFileIntoFolders(actions) ==
    {ValOf(actions[i].parameter) :
        i \in {j \in 1..Len(actions) : actions[j].action_type = "fileinto"}}

ClaimIncludes(actions, action) == \E i \in 1..Len(actions) : actions[i] = action

\* C15: simulate_actions reports as new folder F when the actions include
\* fileinto(F) and the email's current folder otherwise, the stop flag exactly
\* when the actions include stop, the read flag exactly when they include the
\* mark-as-read setflag, and leaves the email's own folder as it was.
C15_SimulatedActions ==
    SimulateDone =>
        LET match_result == simulated.match_result
            folders == ClaimFileIntoFolders(match_result.actions)
        IN  /\ IsOk(simulated.out)
            /\ IF folders = {}
               THEN simulated.out.val.new_folder = match_result.email.folder
               ELSE simulated.out.val.new_folder \in folders
            /\ simulated.out.val.stopped_processing
                  <=> ClaimIncludes(match_result.actions, Val(stop))
            /\ simulated.out.val.marked_as_read
                  <=> ClaimIncludes(match_result.actions, Val(mark_as_read))
            /\ simulated.out.val.original_folder = match_result.email.folder
            /\ \E e \in 1..Len(emails) : emails[e] = match_result.email

\* the conditions of a filter on a field other than from, subject, to, body
ClaimUnknownField(condition) == Lower(condition.field) \notin {"from", "subject", "to", "body"}

ClaimUnknownConditions(filter) ==
    UNION {{filter.rules[i].conditions[c] :
               c \in {d \in 1..Len(filter.rules[i].conditions) :
                         ClaimUnknownField(filter.rules[i].conditions[d])}} :
           i \in 1..Len(filter.rules)}

\* C16: a condition on a field other than from, subject, to and body matches no
\* email, and test_filter and find_unmatched_emails return (raise nothing) on a
\* filter that holds such a condition.
C16_UnknownFieldNoMatch ==
    (UnmatchedDone /\ ClaimUnknownConditions(sieve_filter) # {}) =>
        /\ \A condition \in ClaimUnknownConditions(sieve_filter) :
              \A e \in 1..Len(emails) : ~test_condition(condition, emails[e])
        /\ IsOk(test_out)
        /\ IsOk(unmatched_out)

\* C17: after any sequence of SieveFilter.create, add_rule, remove_rule, enable
\* and disable the filter's name is non-empty and every rule has at least one
\* condition and one action; validate() then reports an error only when the
\* rule list is empty, and reports valid exactly when it reports no error.
C17_EntityInvariants ==
    (mode = "entity" /\ pc \in {"built", "done"}) =>
        /\ sieve_filter.name # ""
        /\ \A i \in 1..Len(sieve_filter.rules) :
              /\ sieve_filter.rules[i].conditions # <<>>
              /\ sieve_filter.rules[i].actions # <<>>
        /\ pc = "done" =>
              /\ IsOk(validation)
              /\ validation.val[2] # <<>> => sieve_filter.rules = <<>>
              /\ validation.val[1] <=> validation.val[2] = <<>>

\* validate() called on a disabled filter that holds two rules
C17_Witness ==
    /\ mode = "entity"
    /\ pc = "done"
    /\ Len(sieve_filter.rules) = 2
    /\ ~sieve_filter.enabled
    /\ validation.val = <<TRUE, <<>>>>

DetectDone == mode = "detect" /\ pc = "done"

\* C18: detect_patterns returns its patterns in non-increasing order of
\* confidence, each with min_confidence <= confidence <= 1.
C18_RankedByConfidence ==
    DetectDone =>
        /\ IsOk(detected)
        /\ \A i \in 1..Len(detected.val) :
              /\ detected.val[i].confidence[1] * 10
                    >= detector.min_confidence * detected.val[i].confidence[2]
              /\ detected.val[i].confidence[1] <= detected.val[i].confidence[2]
              /\ detected.val[i].confidence[2] > 0
        /\ \A i, j \in 1..Len(detected.val) :
              i < j => detected.val[i].confidence[1] * detected.val[j].confidence[2]
                          >= detected.val[j].confidence[1] * detected.val[i].confidence[2]

\* the domain of a later sender ranked before the domain of an earlier one,
\* whose confidence is lower
C18_Witness ==
    /\ DetectDone
    /\ \E i, j \in 1..Len(detected.val) :
          /\ i < j
          /\ detected.val[i].pattern_type = "sender_domain"
          /\ detected.val[j].pattern_type = "sender_domain"
          /\ detected.val[i].value = "shop.de"
          /\ detected.val[j].value = "bulk1.io"
          /\ detected.val[j].confidence # detected.val[i].confidence

\* the number of emails a pass counts under a key
ClaimCount(kind, key) == Cardinality({i \in 1..Len(emails) : key \in KeysOf(kind, emails[i])})

ClaimKeys(kind) == UNION {KeysOf(kind, emails[i]) : i \in 1..Len(emails)}

\* domain appears exactly min_frequency times and no other signal reaches its floor
ClaimLoneDomain(domain) ==
    /\ domain \in ClaimKeys("sender_domain")
    /\ ClaimCount("sender_domain", domain) = detector.min_frequency
    /\ \A other \in ClaimKeys("sender_domain") \ {domain} :
          ClaimCount("sender_domain", other) < detector.min_frequency
    /\ \A keyword \in ClaimKeys("subject_keyword") :
          ClaimCount("subject_keyword", keyword) < detector.min_frequency
    /\ \A sender \in ClaimKeys("sender_address") :
          ClaimCount("sender_address", sender) < detector.min_frequency + 2

ClaimOnlyPattern(domain) ==
    /\ Len(detected.val) = 1
    /\ detected.val[1].pattern_type = "sender_domain"
    /\ detected.val[1].value = domain
    /\ detected.val[1].frequency = detector.min_frequency

\* C19 as stated: on a collection in which one sender domain appears exactly
\* min_frequency times and no other signal reaches its floor, detect_patterns
\* returns exactly one pattern, of kind sender_domain, whatever the size of the
\* collection and the thresholds.
C19_LoneDomainAlwaysReported ==
    DetectDone => \A domain \in ClaimKeys("sender_domain") :
                     ClaimLoneDomain(domain) => ClaimOnlyPattern(domain)

\* C19 amended: on such a collection detect_patterns returns exactly one
\* pattern, of kind sender_domain, when min_frequency / (0.1 * total) reaches
\* min_confidence, and no pattern when it does not.
C19_LoneDomainReportedIfConfident ==
    DetectDone => \A domain \in ClaimKeys("sender_domain") :
                     ClaimLoneDomain(domain) =>
                        IF 100 * detector.min_frequency
                              >= detector.min_confidence * Len(emails)
                        THEN ClaimOnlyPattern(domain)
                        ELSE detected.val = <<>>

\* the lone domain reported with a confidence below 1
C19_Witness ==
    /\ DetectDone
    /\ ClaimLoneDomain("shop.de")
    /\ ClaimOnlyPattern("shop.de")
    /\ Len(emails) > 10 * detector.min_frequency

\* the positions <<i, j, k>> of the categories nested two levels below a
\* top-level category
ClaimDeepPositions ==
    UNION {UNION {{<<i, j, k>> :
                      k \in 1..Len(SubcategoriesOf(SubcategoriesOf(categories[i])[j]))} :
                  j \in 1..Len(SubcategoriesOf(categories[i]))} :
           i \in 1..Len(categories)}

ClaimDeepAt(at) == SubcategoriesOf(SubcategoriesOf(categories[at[1]])[at[2]])[at[3]]

\* C20: categories nested deeper than one level are processed recursively: a
\* sub-subcategory with confidence >= min_confidence and at least one pattern
\* that parses, all of whose ancestors are confident, yields a rule.
C20_DeepCategoriesYieldRules ==
    GenDone =>
        \A at \in ClaimDeepPositions :
            (/\ ClaimConfident(categories[at[1]])
             /\ ClaimConfident(SubcategoriesOf(categories[at[1]])[at[2]])
             /\ ClaimConfident(ClaimDeepAt(at))
             /\ ClaimYields(ClaimDeepAt(at)))
            => /\ IsOk(gen_out)
               /\ \E l \in 1..Len(rule_src) : rule_src[l] = at

SharedCalled(ops) == mode = "shared" /\ last_call # NotRun /\ last_call.op \in ops

RemovedAbsentRule ==
    /\ SharedCalled({"remove_rule"})
    /\ \A i \in 1..Len(View(last_call.before, last_call.receiver).rules) :
          View(last_call.before, last_call.receiver).rules[i] # last_call.rule

\* C27: remove_rule with a rule that is not in the filter fails with an error
\* and leaves the filter as it was: the same rules in the same order, the same
\* enabled flag and the same updated_at.
C27_FailedRemoveChangesNothing ==
    RemovedAbsentRule =>
        /\ last_call.out.exc = "ValueError"
        /\ View(objects, last_call.receiver) = View(last_call.before, last_call.receiver)
        /\ objects.filters[last_call.receiver].updated_at
               = last_call.before.filters[last_call.receiver].updated_at

\* C27 witness: remove_rule failed on a filter that holds another rule
C27_Witness ==
    /\ RemovedAbsentRule
    /\ View(last_call.before, last_call.receiver).rules # <<>>
    /\ ~IsOk(last_call.out)

RuleValidated == mode = "validate" /\ pc = "rule"

\* the conditions of the validated rule that are address-domain conditions
\* whose value, in lower case, is one of domains
ClaimDomainConditions(domains) ==
    {c \in 1..Len(last_call.conditions) :
        /\ last_call.conditions[c].condition_type = "address_domain"
        /\ Lower(last_call.conditions[c].value) \in domains}

ClaimCommaConditions ==
    {c \in 1..Len(last_call.conditions) : Contains(last_call.conditions[c].value, ",")}

\* the issues of the given severity whose message starts with prefix
ClaimFindings(severity, prefix) ==
    {k \in 1..Len(validation.val) :
        /\ validation.val[k].severity = severity
        /\ StartsWith(validation.val[k].message, prefix)}

\* C22: validate_rule runs its three checks independently: it returns one error
\* per address-domain condition with a placeholder value, one warning per
\* address-domain condition with a generic value and one error per condition
\* whose value contains a comma, whatever the other checks found.
C22_ChecksAreIndependent ==
    RuleValidated =>
        /\ Cardinality(ClaimFindings("error", "Placeholder domain detected"))
              = Cardinality(ClaimDomainConditions(INVALID_DOMAINS))
        /\ Cardinality(ClaimFindings("warning", "Overly generic domain"))
              = Cardinality(ClaimDomainConditions(GENERIC_DOMAINS))
        /\ Cardinality(ClaimFindings("error", "Comma found in condition value"))
              = Cardinality(ClaimCommaConditions)

\* C22 witness: a rule with a placeholder condition and a comma condition, and
\* both findings reported
C22_Witness ==
    /\ RuleValidated
    /\ ClaimDomainConditions(INVALID_DOMAINS) # {}
    /\ ClaimCommaConditions # {}
    /\ ClaimFindings("error", "Placeholder domain detected") # {}
    /\ ClaimFindings("error", "Comma found in condition value") # {}

FolderSuggested == mode = "detect" /\ pc = "suggested"

\* the number of the grouped emails that lie in folder
ClaimPopulation(folder) ==
    Cardinality({i \in 1..Len(grouped.emails) : grouped.emails[i].folder = folder})

ClaimFolders == {grouped.emails[i].folder : i \in 1..Len(grouped.emails)}

ClaimSystemFolders == {"INBOX", "Trash", "Spam", "Junk", "Sent"}

\* the capitalized second-level label of the domain of a sender_domain pattern,
\* "Filtered" for the other patterns
ClaimFallback ==
    IF grouped.pattern.pattern_type = "sender_domain" /\ Contains(grouped.pattern.value, ".")
    THEN Capitalize(Split(grouped.pattern.value, ".")[Len(Split(grouped.pattern.value, ".")) - 1])
    ELSE "Filtered"

\* C23: suggest_folder_for_pattern returns the most populated of the non-system
\* folders that hold matching emails whenever a matching email lies in a
\* non-system folder, and only otherwise the capitalized second-level label of
\* the pattern's domain or "Filtered".
C23_MostPopulatedNonSystem ==
    FolderSuggested =>
        IF ClaimFolders \ ClaimSystemFolders # {}
        THEN /\ suggested.val \in ClaimFolders \ ClaimSystemFolders
             /\ \A folder \in ClaimFolders \ ClaimSystemFolders :
                   ClaimPopulation(folder) <= ClaimPopulation(suggested.val)
        ELSE suggested.val = ClaimFallback

\* the first position at which a grouped email lies in folder
ClaimFirstSeen(folder) ==
    CHOOSE i \in 1..Len(grouped.emails) :
        /\ grouped.emails[i].folder = folder
        /\ \A j \in 1..(i - 1) : grouped.emails[j].folder # folder

\* the most populated folder of the grouped emails, the first seen of several
ClaimTopFolder ==
    CHOOSE folder \in ClaimFolders :
        \A other \in ClaimFolders \ {folder} :
            \/ ClaimPopulation(other) < ClaimPopulation(folder)
            \/ /\ ClaimPopulation(other) = ClaimPopulation(folder)
               /\ ClaimFirstSeen(folder) < ClaimFirstSeen(other)

\* C23 as amended: the folder returned is the most populated folder of the
\* matching emails (the first seen of equally populated ones) when that folder
\* is not a system folder; when it is a system folder the fallback is returned,
\* whether or not matching emails lie in non-system folders.
C23_MostPopulatedUnlessSystem ==
    (FolderSuggested /\ grouped.emails # <<>>) =>
        suggested.val = IF ClaimTopFolder \notin ClaimSystemFolders
                        THEN ClaimTopFolder ELSE ClaimFallback

\* C23 witness: matching emails lie in a non-system folder, INBOX holds more of
\* them, and the fallback is returned
C23_Witness ==
    /\ FolderSuggested
    /\ ClaimFolders \ ClaimSystemFolders # {}
    /\ ClaimTopFolder = "INBOX"
    /\ ClaimPopulation("INBOX") > 1
    /\ suggested.val = ClaimFallback
    /\ suggested.val \notin ClaimFolders

GeneratedValidated == mode = "gen" /\ pc = "validated"

\* C24: every filter returned by generate_filter_from_categories passes
\* validate_filter with no issue of severity error: no condition value contains
\* a comma and no address-domain value is a placeholder domain.
C24_GeneratedFiltersValidate ==
    GeneratedValidated =>
        /\ \A k \in 1..Len(validation.val) : validation.val[k].severity # "error"
        /\ \A i \in 1..Len(gen_out.val.rules) :
              \A c \in 1..Len(gen_out.val.rules[i].conditions) :
                 /\ ~Contains(gen_out.val.rules[i].conditions[c].value, ",")
                 /\ ~(/\ gen_out.val.rules[i].conditions[c].condition_type = "address_domain"
                      /\ Lower(gen_out.val.rules[i].conditions[c].value) \in INVALID_DOMAINS)

\* C25: for every filter and every email collection test_filter returns a
\* FilterTestResult with matched_emails <= total_emails and 0 <= match_rate <= 1.
C25_ResultWithinBounds ==
    MatchDone =>
        /\ IsOk(test_out)
        /\ test_out.val.matched_emails <= test_out.val.total_emails
        /\ 0 <= test_out.val.match_rate[1]
        /\ test_out.val.match_rate[1] <= test_out.val.match_rate[2]

\* C26: a subcategory yields a rule only if its parent meets min_confidence:
\* the subcategories of a dropped top-level category contribute no rule.
C26_SubRulesOfConfidentParents ==
    (mode = "gen" /\ IsOk(gen_out)) =>
        \A k \in 1..Len(rule_src) :
            Len(rule_src[k]) = 2 => ClaimConfident(categories[rule_src[k][1]])

\* C26 witness: a filter was returned although a top-level category below the
\* threshold has a confident subcategory whose patterns parse, and that
\* subcategory has no rule in it
C26_Witness ==
    /\ mode = "gen"
    /\ IsOk(gen_out)
    /\ \E i \in 1..Len(categories) :
          /\ ~ClaimConfident(categories[i])
          /\ SubcategoriesOf(categories[i]) # <<>>
          /\ ClaimConfident(SubcategoriesOf(categories[i])[1])
          /\ ClaimYields(SubcategoriesOf(categories[i])[1])
          /\ \A k \in 1..Len(rule_src) : rule_src[k][1] # i

EmailsGrouped == mode = "detect" /\ pc = "grouped"

\* C28: for every pattern p that detect_patterns returned, sender_domain,
\* subject_keyword and sender_address alike, group_emails_by_pattern(emails, p)
\* returns exactly p.email_count emails.
C28_GroupSizeIsEmailCount ==
    EmailsGrouped => Len(grouped.emails) = grouped.pattern.email_count

\* email_fetcher.connect() was called and returned
ClaimConnected ==
    /\ mode = "usecase"
    /\ use_case.calls # <<>>
    /\ ~(use_case.pc = "raised" /\ use_case.calls = <<"connect">>)

ClaimDisconnects == {k \in 1..Len(use_case.calls) : use_case.calls[k] = "disconnect"}

ClaimExecuteEnded == mode = "usecase" /\ use_case.pc \in {"returned", "raised"}

\* C29: once connect() has succeeded, disconnect() is called exactly once before
\* execute returns or raises, on every path, and no port call follows it.
C29_DisconnectOnceAndLast ==
    ClaimConnected =>
        /\ Cardinality(ClaimDisconnects) <= 1
        /\ ClaimDisconnects \subseteq {Len(use_case.calls)}
        /\ ClaimExecuteEnded <=> ClaimDisconnects # {}

\* C29 witness: the filter was generated, saving it failed, and execute raised
\* that failure after the disconnect
C29_Witness ==
    /\ ClaimConnected
    /\ ClaimExecuteEnded
    /\ use_case.pc = "raised"
    /\ use_case.pending = PortFailure("save")
    /\ use_case.calls[Len(use_case.calls) - 1] = "save"
    /\ use_case.calls[Len(use_case.calls)] = "disconnect"

ClaimPosts == {k \in 1..Len(ollama.events) : ollama.events[k].call = "post"}

ClaimSleeps == {k \in 1..Len(ollama.events) : ollama.events[k].call = "sleep"}

ClaimFailedPosts == {k \in ClaimPosts : ~IsOk(ollama.events[k].out)}

ClaimCallEnded == ollama.pc \in {"returned", "raised"}

\* at most max_retries + 1 requests; a successful request is the last event and
\* its response is returned; after max_retries + 1 failed requests the last
\* failure is raised; a wait follows a failed request that was not the final
\* attempt, and a request follows the wait
ClaimRetryDiscipline ==
    /\ Cardinality(ClaimPosts) <= ollama.max_retries + 1
    /\ \A k \in ClaimPosts \ ClaimFailedPosts :
          /\ k = Len(ollama.events)
          /\ ollama.pc = "returned"
          /\ ollama.out = ollama.events[k].out
    /\ (ClaimCallEnded /\ ClaimPosts # {}
            /\ Cardinality(ClaimFailedPosts) = ollama.max_retries + 1) =>
          /\ ollama.pc = "raised"
          /\ ollama.out = ollama.events[Len(ollama.events)].out
    /\ \A k \in ClaimSleeps :
          /\ k - 1 \in ClaimFailedPosts
          /\ Cardinality({j \in ClaimPosts : j < k}) <= ollama.max_retries
          /\ ClaimCallEnded => k + 1 \in ClaimPosts

\* C30: _call_ollama terminates after at most max_retries + 1 requests: it
\* returns the response of the first successful request without a further
\* request, raises the last failure after max_retries + 1 failed requests, and
\* waits between attempts only, never after the final failed attempt.
C30_TerminatesWithinRetries ==
    /\ [](mode = "ollama" => ClaimRetryDiscipline)
    /\ <>(mode = "ollama" => ClaimCallEnded)

\* C30 witness: all of at least three attempts failed, with a wait after each
\* but the last, and the failure of the last one was raised
C30_Witness ==
    /\ mode = "ollama"
    /\ ollama.max_retries >= 2
    /\ Cardinality(ClaimFailedPosts) = ollama.max_retries + 1
    /\ Cardinality(ClaimSleeps) = ollama.max_retries
    /\ ollama.pc = "raised"
    /\ ollama.out = Raise("TimeoutError", "attempt " \o ToString(ollama.max_retries))
    /\ ollama.events[1].out.exc = "OSError"

\* C10: on every construction path (the direct constructor, header_contains,
\* address_domain_is, from_pattern) a FilterCondition that gets constructed has
\* a non-empty field, a non-empty value and, when its kind is address-domain,
\* a value that passes is_valid_domain; otherwise the construction fails.
C10_EveryPathValidates ==
    (mode = "cond" /\ pc = "done" /\ IsOk(cond_out)) =>
        /\ cond_out.val.field # ""
        /\ cond_out.val.value # ""
        /\ (cond_out.val.condition_type = "address_domain"
                => is_valid_domain(cond_out.val.value))

====
